---------------------------- MODULE Spec2Model ----------------------------
(***************************************************************************)
(* libnetconf2, src/io.c: the NETCONF transport, framing and message codec *)
(* core.  One session, its transport and the three io entry points         *)
(* nc_read_msg, nc_read_msg_poll and nc_write_msg.                         *)
(*                                                                         *)
(* A byte is a one-character string; a buffer is a sequence of bytes.      *)
(* Every C function of io.c is an operator on a "world" record w that      *)
(* holds the session's fields, the transport's pending input (inq), the    *)
(* outcomes the transport will give to the next writes (wplan) and the     *)
(* bytes written during the call (out); it returns the new world together  *)
(* with the function's return value.                                       *)
(***************************************************************************)
EXTENDS Integers, Sequences, FiniteSets, TLC

VARIABLES
    session,    \* struct nc_session: status, term_reason, side, version, ti_type, msgid
    inq,        \* transport input: results of the coming read() calls, in order
    last        \* the last call made on the session: what was asked, what came back

vars == <<session, inq, last>>

(***************************************************************************)
(* Enumerations of session_p.h and of the public headers.                  *)
(***************************************************************************)
NC_STATUS_STARTING == "NC_STATUS_STARTING"
NC_STATUS_CLOSING == "NC_STATUS_CLOSING"
NC_STATUS_INVALID == "NC_STATUS_INVALID"
NC_STATUS_RUNNING == "NC_STATUS_RUNNING"

NC_SESSION_TERM_NONE == "NC_SESSION_TERM_NONE"
NC_SESSION_TERM_CLOSED == "NC_SESSION_TERM_CLOSED"
NC_SESSION_TERM_KILLED == "NC_SESSION_TERM_KILLED"
NC_SESSION_TERM_DROPPED == "NC_SESSION_TERM_DROPPED"
NC_SESSION_TERM_TIMEOUT == "NC_SESSION_TERM_TIMEOUT"
NC_SESSION_TERM_BADHELLO == "NC_SESSION_TERM_BADHELLO"
NC_SESSION_TERM_OTHER == "NC_SESSION_TERM_OTHER"

NC_CLIENT == "NC_CLIENT"
NC_SERVER == "NC_SERVER"

NC_VERSION_10 == "NC_VERSION_10"
NC_VERSION_11 == "NC_VERSION_11"

NC_TI_NONE == "NC_TI_NONE"
NC_TI_FD == "NC_TI_FD"
NC_TI_LIBSSH == "NC_TI_LIBSSH"
NC_TI_OPENSSL == "NC_TI_OPENSSL"

NC_MSG_ERROR == "NC_MSG_ERROR"
NC_MSG_WOULDBLOCK == "NC_MSG_WOULDBLOCK"
NC_MSG_NONE == "NC_MSG_NONE"
NC_MSG_HELLO == "NC_MSG_HELLO"
NC_MSG_RPC == "NC_MSG_RPC"
NC_MSG_REPLY == "NC_MSG_REPLY"
NC_MSG_NOTIF == "NC_MSG_NOTIF"

(***************************************************************************)
(* Program constants.                                                      *)
(***************************************************************************)
BUFFERSIZE == 512

WRITE_BUFSIZE == 2 * BUFFERSIZE

NC_READ_TIMEOUT == 30

NC_VERSION_10_ENDTAG_LEN == 6

\* microseconds of one would-block sleep (the spec's "sleep step = 1 ms")
NC_TIMEOUT_STEP == 1000

NC_VERSION_10_ENDTAG ==
    <<"]", "]", ">", "]", "]", ">">>

NC_NS_BASE ==
    <<"u", "r", "n", ":", "i", "e", "t", "f", ":", "p", "a", "r", "a", "m", "s", ":", "x",
      "m", "l", ":", "n", "s", ":", "n", "e", "t", "c", "o", "n", "f", ":", "b", "a", "s",
      "e", ":", "1", ".", "0">>

NC_NS_NOTIF ==
    <<"u", "r", "n", ":", "i", "e", "t", "f", ":", "p", "a", "r", "a", "m", "s", ":", "x",
      "m", "l", ":", "n", "s", ":", "n", "e", "t", "c", "o", "n", "f", ":", "n", "o", "t",
      "i", "f", "i", "c", "a", "t", "i", "o", "n", ":", "1", ".", "0">>

(***************************************************************************)
(* Results of a read() on the transport that are not a byte.  On an SSH    *)
(* channel they stand for SSH_AGAIN, a signal-free error, EOF and          *)
(* SSH_ERROR; on TLS for WANT_READ, ZERO_RETURN and the other SSL errors.  *)
(***************************************************************************)
EAGAIN == "EAGAIN"
EINTR == "EINTR"
EOF == "EOF"
ERR == "ERR"

IsByte(x) == x \notin {EAGAIN, EINTR, EOF, ERR}

\* a NULL buffer pointer (no byte is a string of four characters)
NULL == <<"NULL">>

\* a NULL struct lyxml_elem pointer
NULL_ELEM ==
    [null |-> TRUE, name |-> <<>>, prefix |-> <<>>, has_ns |-> FALSE, ns |-> <<>>,
     attrs |-> <<>>]

(***************************************************************************)
(* Small helpers on buffers.                                               *)
(***************************************************************************)
Min(S) == CHOOSE x \in S : \A y \in S : x <= y

\* strncmp(t, &s[i], Len(t)) == 0
StartsAt(s, i, t) ==
    /\ i >= 1
    /\ i + Len(t) - 1 <= Len(s)
    /\ SubSeq(s, i, i + Len(t) - 1) = t

\* the tail of s from position i on
From(s, i) == SubSeq(s, i, Len(s))

Digits == <<"0", "1", "2", "3", "4", "5", "6", "7", "8", "9">>

IsDigit(c) == \E i \in 1..10 : Digits[i] = c

DigitVal(c) == (CHOOSE i \in 1..10 : Digits[i] = c) - 1

\* printf's %u, %zu and %PRIu64 of a non-negative number
RECURSIVE Dec(_)
Dec(n) == IF n < 10 THEN <<Digits[n + 1]>> ELSE Append(Dec(n \div 10), Digits[(n % 10) + 1])

(***************************************************************************)
(* The session's status gate, the same test at the head of nc_read,        *)
(* nc_read_msg, nc_read_poll, nc_read_msg_poll, nc_write and nc_write_msg. *)
(***************************************************************************)
\* a gate that turns away invalid sessions only
StatusUsable_not_invalid(status) == status # NC_STATUS_INVALID

StatusUsable(status) == status \in {NC_STATUS_RUNNING, NC_STATUS_STARTING}

\* the transition with a wrong status, and the one that forgets the reason
Invalidate_closing(w, reason) ==
    [w EXCEPT !.status = NC_STATUS_CLOSING, !.term_reason = reason]

Invalidate_no_reason(w, reason) == [w EXCEPT !.status = NC_STATUS_INVALID]

\* every fault is given the reason Other
Invalidate_other(w, reason) ==
    [w EXCEPT !.status = NC_STATUS_INVALID, !.term_reason = NC_SESSION_TERM_OTHER]

\* session->status = NC_STATUS_INVALID; session->term_reason = reason;
Invalidate(w, reason) == [w EXCEPT !.status = NC_STATUS_INVALID, !.term_reason = reason]

(***************************************************************************)
(* nc_read: read count bytes, sleeping on would-block until the budget     *)
(* read_timeout (seconds) is used up.  An empty inq is a transport that    *)
(* reports would-block from now on.                                        *)
(***************************************************************************)
SleepsPerSecond == 1000000 \div NC_TIMEOUT_STEP

ReadResult(w, ret, buf, rt) == [w |-> w, ret |-> ret, buf |-> buf, rt |-> rt]

\* the number of bytes at the head of the input: what one read() call can take
ReadyBytes(q) == Min({j \in 1..(Len(q) + 1) : j = Len(q) + 1 \/ ~IsByte(q[j])}) - 1

\* the do-while loop of nc_read; one turn is one read() call, which takes the
\* bytes that are there, count - size of them at most
RECURSIVE nc_read_loop(_, _, _, _, _)
nc_read_loop(w, buf, count, rt, sleep_count) ==
    IF w.ti_type = NC_TI_NONE THEN ReadResult(w, 0, buf, rt)
    ELSE IF w.inq = <<>>
    THEN ReadResult(Invalidate(w, NC_SESSION_TERM_OTHER), -1, buf, 0)
    ELSE
      LET x == Head(w.inq)
          w1 == [w EXCEPT !.inq = Tail(@)]
      IN  CASE x = EOF ->
                 ReadResult(Invalidate(w1, NC_SESSION_TERM_DROPPED), -1, buf, rt)
            [] x = ERR ->
                 ReadResult(Invalidate(w1, NC_SESSION_TERM_OTHER), -1, buf, rt)
            [] x = EINTR ->
                 IF w.ti_type = NC_TI_FD
                 THEN nc_read_loop(w1, buf, count, rt, sleep_count)
                 ELSE ReadResult(Invalidate(w1, NC_SESSION_TERM_OTHER), -1, buf, rt)
            [] x = EAGAIN ->
                 LET sc == sleep_count + 1
                     full == (sc = SleepsPerSecond)
                     rt1 == IF full THEN rt - 1 ELSE rt
                 IN  IF rt1 = 0
                     THEN ReadResult(Invalidate(w1, NC_SESSION_TERM_OTHER), -1, buf, rt1)
                     ELSE nc_read_loop(w1, buf, count, rt1, IF full THEN 0 ELSE sc)
            [] OTHER ->
                 LET ready == ReadyBytes(w.inq)
                     r == IF ready < count - Len(buf) THEN ready ELSE count - Len(buf)
                     buf1 == buf \o SubSeq(w.inq, 1, r)
                     w2 == [w EXCEPT !.inq = From(@, r + 1)]
                 IN  IF Len(buf1) < count
                     THEN nc_read_loop(w2, buf1, count, rt, sleep_count)
                     ELSE ReadResult(w2, Len(buf1), buf1, rt)

nc_read(w, count, rt) ==
    IF ~StatusUsable(w.status) THEN ReadResult(w, -1, <<>>, rt)
    ELSE IF count = 0 THEN ReadResult(w, 0, <<>>, rt)
    ELSE nc_read_loop(w, <<>>, count, rt, 0)

\* io.c:179-184: what nc_read_chunk makes of nc_read's result r
nc_read_chunk_result(r) == IF r.ret <= 0 THEN ReadResult(r.w, -1, <<>>, r.rt) ELSE r

\* a reader of chunks that stops one byte early
nc_read_chunk_one_short(w, len, rt) ==
    IF len <= 1 THEN ReadResult(w, 0, <<>>, rt)
    ELSE nc_read_chunk_result(nc_read(w, len - 1, rt))

nc_read_chunk(w, len, rt) ==
    IF len = 0 THEN ReadResult(w, 0, <<>>, rt)
    ELSE nc_read_chunk_result(nc_read(w, len, rt))

\* chunk ends with endtag (the strncmp of io.c:251)
EndsWith(chunk, endtag) ==
    Len(chunk) >= Len(endtag) /\ StartsAt(chunk, Len(chunk) - Len(endtag) + 1, endtag)

\* the bytes of the input that nc_read hands out at once, one by one
ReadyNow(w) ==
    IF StatusUsable(w.status) /\ w.ti_type # NC_TI_NONE
    THEN SubSeq(w.inq, 1, ReadyBytes(w.inq))
    ELSE <<>>

\* the lengths at which chunk, grown by the bytes of run, ends with endtag
Hits(chunk, run, endtag) ==
    LET all == chunk \o run
    IN  {c \in (Len(chunk) + 1)..(Len(chunk) + Len(run)) :
            c >= Len(endtag) /\ StartsAt(all, c - Len(endtag) + 1, endtag)}

\* nc_read_until with limit 0, as both its callers pass it: nc_read of one
\* byte, again and again, until what was read ends with endtag.  The turns
\* of the loop that take the bytes at the head of the input are made at once
\* (each of those nc_read calls returns 1 and changes nothing but the input).
RECURSIVE nc_read_until_loop(_, _, _, _)
\* the turns over the bytes run, whose ends with endtag are hits
nc_read_until_run(w, endtag, rt, chunk, run, hits) ==
    IF hits # {}
    THEN ReadResult([w EXCEPT !.inq = From(@, Min(hits) - Len(chunk) + 1)],
                    Min(hits), SubSeq(chunk \o run, 1, Min(hits)), rt)
    ELSE nc_read_until_loop([w EXCEPT !.inq = From(@, Len(run) + 1)], endtag, rt,
                            chunk \o run)

\* one turn: r is the result of nc_read for one byte
nc_read_until_byte(endtag, chunk, r) ==
    IF r.ret # 1 THEN ReadResult(r.w, -1, <<>>, r.rt)
    ELSE IF EndsWith(chunk \o r.buf, endtag)
    THEN ReadResult(r.w, Len(chunk) + 1, chunk \o r.buf, r.rt)
    ELSE nc_read_until_loop(r.w, endtag, r.rt, chunk \o r.buf)

nc_read_until_ready(w, endtag, rt, chunk, run) ==
    IF run # <<>>
    THEN nc_read_until_run(w, endtag, rt, chunk, run, Hits(chunk, run, endtag))
    ELSE nc_read_until_byte(endtag, chunk, nc_read(w, 1, rt))

nc_read_until_loop(w, endtag, rt, chunk) ==
    nc_read_until_ready(w, endtag, rt, chunk, ReadyNow(w))

nc_read_until(w, endtag, rt) == nc_read_until_loop(w, endtag, rt, <<>>)

(***************************************************************************)
(* strtoul(chunk, NULL, 10): leading white space, an optional sign, then   *)
(* the longest run of digits; 0 when there is no digit.  A minus sign      *)
(* wraps the value around 2^64: the result is given here as the negative   *)
(* number -n, which stands for 2^64 - n.                                   *)
(***************************************************************************)
IsSpace(c) == c \in {" ", "\t", "\n", "\r"}

SkipSpace(s, i) == Min({j \in i..(Len(s) + 1) : j = Len(s) + 1 \/ ~IsSpace(s[j])})

DigitsEnd(s, i) == Min({j \in i..(Len(s) + 1) : j = Len(s) + 1 \/ ~IsDigit(s[j])})

RECURSIVE DecVal(_)
DecVal(s) == IF s = <<>> THEN 0 ELSE 10 * DecVal(SubSeq(s, 1, Len(s) - 1)) + DigitVal(s[Len(s)])

\* a conversion that never gives 0
strtoul_never_zero(s) ==
    LET e == DigitsEnd(s, 1)
        v == DecVal(SubSeq(s, 1, e - 1))
    IN  IF v = 0 THEN 1 ELSE v

strtoul(s) ==
    LET p == SkipSpace(s, 1)
        signed == p <= Len(s) /\ s[p] \in {"+", "-"}
        d == IF signed THEN p + 1 ELSE p
        e == DigitsEnd(s, d)
        v == DecVal(SubSeq(s, d, e - 1))
    IN  IF signed /\ s[p] = "-" THEN 0 - v ELSE v

(***************************************************************************)
(* lyxml_parse_mem (libyang), as far as nc_read_msg looks at its result:   *)
(* the root element's local name, its prefix and the namespace bound to    *)
(* it.  The root's start tag is parsed in full (name, attributes in double *)
(* quotes); an element with content must end the document with its own    *)
(* closing tag; an empty element must end the document.  The content       *)
(* between the tags is not looked at.                                      *)
(***************************************************************************)
IsNameChar(c) == c \notin {" ", "\t", "\n", "\r", "<", ">", "/", "=", "\"", "'", "&"}

NameEnd(s, i) == Min({j \in i..(Len(s) + 1) : j = Len(s) + 1 \/ ~IsNameChar(s[j])})

QuoteAt(s, i) == Min({j \in i..(Len(s) + 1) : j = Len(s) + 1 \/ s[j] = "\""})

AttrsResult(ok, attrs, pos, empty) == [ok |-> ok, attrs |-> attrs, pos |-> pos, empty |-> empty]

RECURSIVE ParseAttrs(_, _, _)
ParseAttrs(s, i, attrs) ==
    LET j == SkipSpace(s, i)
        e == NameEnd(s, j)
        q == QuoteAt(s, e + 2)
    IN  IF j > Len(s) THEN AttrsResult(FALSE, attrs, j, FALSE)
        ELSE IF s[j] = ">" THEN AttrsResult(TRUE, attrs, j, FALSE)
        ELSE IF StartsAt(s, j, <<"/", ">">>) THEN AttrsResult(TRUE, attrs, j, TRUE)
        ELSE IF j = i \/ e = j \/ ~StartsAt(s, e, <<"=", "\"">>) \/ q > Len(s)
        THEN AttrsResult(FALSE, attrs, j, FALSE)
        ELSE ParseAttrs(s, q + 1,
                        Append(attrs, [name |-> SubSeq(s, j, e - 1),
                                       value |-> SubSeq(s, e + 2, q - 1)]))

ColonAt(name) == Min({j \in 1..(Len(name) + 1) : j = Len(name) + 1 \/ name[j] = ":"})

\* the prefix of a qualified name whose colon is at c (past the end: none)
Prefix(qname, c) == IF c <= Len(qname) THEN SubSeq(qname, 1, c - 1) ELSE <<>>

\* the element that the root's start tag makes: qname is its qualified name,
\* c the place of the colon in it, bound the attributes that bind its namespace
RootElem(qname, c, attrs, bound) ==
    [null |-> FALSE,
     name |-> IF c <= Len(qname) THEN From(qname, c + 1) ELSE qname,
     prefix |-> Prefix(qname, c),
     has_ns |-> bound # {},
     ns |-> IF bound = {} THEN <<>> ELSE attrs[Min(bound)].value,
     attrs |-> attrs]

\* the name of the attribute that binds the namespace of a root with this prefix
NsAttr(prefix) ==
    IF prefix = <<>> THEN <<"x", "m", "l", "n", "s">>
    ELSE <<"x", "m", "l", "n", "s", ":">> \o prefix

Bound(attrs, nsattr) == {k \in 1..Len(attrs) : attrs[k].name = nsattr}

\* the document ends as its root, of start tag a, wants it
RootEnds(msg, a, closing) ==
    IF a.empty
    THEN SkipSpace(msg, a.pos + 2) = Len(msg) + 1
    ELSE /\ Len(msg) - Len(closing) + 1 > a.pos
         /\ StartsAt(msg, Len(msg) - Len(closing) + 1, closing)

lyxml_root(msg, qname, c, a) ==
    IF /\ c # Len(qname)
       /\ a.ok
       /\ RootEnds(msg, a, <<"<", "/">> \o qname \o <<">">>)
    THEN RootElem(qname, c, a.attrs, Bound(a.attrs, NsAttr(Prefix(qname, c))))
    ELSE NULL_ELEM

lyxml_start_tag(msg, p, e) ==
    IF p <= Len(msg) /\ msg[p] = "<" /\ e > p + 1
    THEN lyxml_root(msg, SubSeq(msg, p + 1, e - 1), ColonAt(SubSeq(msg, p + 1, e - 1)),
                    ParseAttrs(msg, e, <<>>))
    ELSE NULL_ELEM

lyxml_parse_start(msg, p) == lyxml_start_tag(msg, p, NameEnd(msg, p + 1))

lyxml_parse_mem(msg) == lyxml_parse_start(msg, SkipSpace(msg, 1))

(***************************************************************************)
(* Text the writer puts on the wire.                                       *)
(***************************************************************************)
ErrTypeText ==
    [ NC_ERR_TYPE_TRAN |->
          <<"t", "r", "a", "n", "s", "p", "o", "r", "t">>,
      NC_ERR_TYPE_RPC |->
          <<"r", "p", "c">>,
      NC_ERR_TYPE_PROT |->
          <<"p", "r", "o", "t", "o", "c", "o", "l">>,
      NC_ERR_TYPE_APP |->
          <<"a", "p", "p", "l", "i", "c", "a", "t", "i", "o", "n">> ]

ErrTagText ==
    [ NC_ERR_IN_USE |->
          <<"i", "n", "-", "u", "s", "e">>,
      NC_ERR_INVALID_VALUE |->
          <<"i", "n", "v", "a", "l", "i", "d", "-", "v", "a", "l", "u", "e">>,
      NC_ERR_TOO_BIG |->
          <<"t", "o", "o", "-", "b", "i", "g">>,
      NC_ERR_MISSING_ATTR |->
          <<"m", "i", "s", "s", "i", "n", "g", "-", "a", "t", "t", "r", "i", "b", "u", "t", "e">>,
      NC_ERR_BAD_ATTR |->
          <<"b", "a", "d", "-", "a", "t", "t", "r", "i", "b", "u", "t", "e">>,
      NC_ERR_UNKNOWN_ATTR |->
          <<"u", "n", "k", "n", "o", "w", "n", "-", "a", "t", "t", "r", "i", "b", "u", "t", "e">>,
      NC_ERR_MISSING_ELEM |->
          <<"m", "i", "s", "s", "i", "n", "g", "-", "e", "l", "e", "m", "e", "n", "t">>,
      NC_ERR_BAD_ELEM |->
          <<"b", "a", "d", "-", "e", "l", "e", "m", "e", "n", "t">>,
      NC_ERR_UNKNOWN_ELEM |->
          <<"u", "n", "k", "n", "o", "w", "n", "-", "e", "l", "e", "m", "e", "n", "t">>,
      NC_ERR_UNKNOWN_NS |->
          <<"u", "n", "k", "n", "o", "w", "n", "-", "n", "a", "m", "e", "s", "p", "a", "c", "e">>,
      NC_ERR_ACCESS_DENIED |->
          <<"a", "c", "c", "e", "s", "s", "-", "d", "e", "n", "i", "e", "d">>,
      NC_ERR_LOCK_DENIED |->
          <<"l", "o", "c", "k", "-", "d", "e", "n", "i", "e", "d">>,
      NC_ERR_RES_DENIED |->
          <<"r", "e", "s", "o", "u", "r", "c", "e", "-", "d", "e", "n", "i", "e", "d">>,
      NC_ERR_ROLLBACK_FAILED |->
          <<"r", "o", "l", "l", "b", "a", "c", "k", "-", "f", "a", "i", "l", "e", "d">>,
      NC_ERR_DATA_EXISTS |->
          <<"d", "a", "t", "a", "-", "e", "x", "i", "s", "t", "s">>,
      NC_ERR_DATA_MISSING |->
          <<"d", "a", "t", "a", "-", "m", "i", "s", "s", "i", "n", "g">>,
      NC_ERR_OP_NOT_SUPPORTED |->
          <<"o", "p", "e", "r", "a", "t", "i", "o", "n", "-", "n", "o", "t", "-", "s", "u", "p",
          "p", "o", "r", "t", "e", "d">>,
      NC_ERR_OP_FAILED |->
          <<"o", "p", "e", "r", "a", "t", "i", "o", "n", "-", "f", "a", "i", "l", "e", "d">>,
      NC_ERR_MALFORMED_MSG |->
          <<"m", "a", "l", "f", "o", "r", "m", "e", "d", "-", "m", "e", "s", "s", "a", "g", "e">> ]

\* the literals of nc_write_error (io.c:803-957)
ErrorText ==
    [ rpc_error_open |->
          <<"<", "r", "p", "c", "-", "e", "r", "r", "o", "r", ">">>,
      rpc_error_close |->
          <<"<", "/", "r", "p", "c", "-", "e", "r", "r", "o", "r", ">">>,
      error_type_open |->
          <<"<", "e", "r", "r", "o", "r", "-", "t", "y", "p", "e", ">">>,
      error_type_close |->
          <<"<", "/", "e", "r", "r", "o", "r", "-", "t", "y", "p", "e", ">">>,
      error_tag_open |->
          <<"<", "e", "r", "r", "o", "r", "-", "t", "a", "g", ">">>,
      error_tag_close |->
          <<"<", "/", "e", "r", "r", "o", "r", "-", "t", "a", "g", ">">>,
      error_severity |->
          <<"<", "e", "r", "r", "o", "r", "-", "s", "e", "v", "e", "r", "i", "t", "y", ">",
          "e", "r", "r", "o", "r", "<", "/", "e", "r", "r", "o", "r", "-", "s", "e", "v", "e",
          "r", "i", "t", "y", ">">>,
      error_app_tag_open |->
          <<"<", "e", "r", "r", "o", "r", "-", "a", "p", "p", "-", "t", "a", "g", ">">>,
      error_app_tag_close |->
          <<"<", "/", "e", "r", "r", "o", "r", "-", "a", "p", "p", "-", "t", "a", "g", ">">>,
      error_path_open |->
          <<"<", "e", "r", "r", "o", "r", "-", "p", "a", "t", "h", ">">>,
      error_path_close |->
          <<"<", "/", "e", "r", "r", "o", "r", "-", "p", "a", "t", "h", ">">>,
      error_message_open |->
          <<"<", "e", "r", "r", "o", "r", "-", "m", "e", "s", "s", "a", "g", "e">>,
      xml_lang |->
          <<" ", "x", "m", "l", ":", "l", "a", "n", "g", "=", "\"">>,
      quote |->
          <<"\"">>,
      gt |->
          <<">">>,
      error_message_close |->
          <<"<", "/", "e", "r", "r", "o", "r", "-", "m", "e", "s", "s", "a", "g", "e", ">">>,
      error_info_open |->
          <<"<", "e", "r", "r", "o", "r", "-", "i", "n", "f", "o", ">">>,
      error_info_close |->
          <<"<", "/", "e", "r", "r", "o", "r", "-", "i", "n", "f", "o", ">">>,
      session_id_open |->
          <<"<", "s", "e", "s", "s", "i", "o", "n", "-", "i", "d", ">">>,
      session_id_close |->
          <<"<", "/", "s", "e", "s", "s", "i", "o", "n", "-", "i", "d", ">">>,
      bad_attribute_open |->
          <<"<", "b", "a", "d", "-", "a", "t", "t", "r", "i", "b", "u", "t", "e", ">">>,
      bad_attribute_close |->
          <<"<", "/", "b", "a", "d", "-", "a", "t", "t", "r", "i", "b", "u", "t", "e", ">">>,
      bad_element_open |->
          <<"<", "b", "a", "d", "-", "e", "l", "e", "m", "e", "n", "t", ">">>,
      bad_element_close |->
          <<"<", "/", "b", "a", "d", "-", "e", "l", "e", "m", "e", "n", "t", ">">>,
      bad_namespace_open |->
          <<"<", "b", "a", "d", "-", "n", "a", "m", "e", "s", "p", "a", "c", "e", ">">>,
      bad_namespace_close |->
          <<"<", "/", "b", "a", "d", "-", "n", "a", "m", "e", "s", "p", "a", "c", "e", ">">> ]

\* the literals of nc_write_msg (io.c:961-1138)
MsgText ==
    [ quote |->
          <<"\"">>,
      gt |->
          <<">">>,
      lt |->
          <<"<">>,
      lt_slash |->
          <<"<", "/">>,
      colon_rpc_reply |->
          <<":", "r", "p", "c", "-", "r", "e", "p", "l", "y">>,
      rpc_reply_open |->
          <<"<", "r", "p", "c", "-", "r", "e", "p", "l", "y">>,
      colon_rpc_reply_gt |->
          <<":", "r", "p", "c", "-", "r", "e", "p", "l", "y", ">">>,
      rpc_reply_close |->
          <<"<", "/", "r", "p", "c", "-", "r", "e", "p", "l", "y", ">">>,
      xmlns_eq |->
          <<"x", "m", "l", "n", "s", "=", "\"">>,
      quote_gt |->
          <<"\"", ">">>,
      ok |->
          <<"<", "o", "k", "/", ">">>,
      rpc_open |->
          <<"<", "r", "p", "c", " ", "x", "m", "l", "n", "s", "=", "\"">>,
      message_id |->
          <<"\"", " ", "m", "e", "s", "s", "a", "g", "e", "-", "i", "d", "=", "\"">>,
      rpc_close |->
          <<"<", "/", "r", "p", "c", ">">>,
      notification_open |->
          <<"<", "n", "o", "t", "i", "f", "i", "c", "a", "t", "i", "o", "n", " ", "x", "m",
          "l", "n", "s", "=", "\"">>,
      eventTime_open |->
          <<"<", "e", "v", "e", "n", "t", "T", "i", "m", "e", ">">>,
      eventTime_close |->
          <<"<", "/", "e", "v", "e", "n", "t", "T", "i", "m", "e", ">">>,
      notification_close |->
          <<"<", "/", "n", "o", "t", "i", "f", "i", "c", "a", "t", "i", "o", "n", ">">>,
      hello_open |->
          <<"<", "h", "e", "l", "l", "o", " ", "x", "m", "l", "n", "s", "=", "\"">>,
      capabilities_open |->
          <<"\"", ">", "<", "c", "a", "p", "a", "b", "i", "l", "i", "t", "i", "e", "s", ">">>,
      capability_open |->
          <<"<", "c", "a", "p", "a", "b", "i", "l", "i", "t", "y", ">">>,
      capability_close |->
          <<"<", "/", "c", "a", "p", "a", "b", "i", "l", "i", "t", "y", ">">>,
      capabilities_close_sid |->
          <<"<", "/", "c", "a", "p", "a", "b", "i", "l", "i", "t", "i", "e", "s", ">", "<",
          "s", "e", "s", "s", "i", "o", "n", "-", "i", "d", ">">>,
      sid_close_hello |->
          <<"<", "/", "s", "e", "s", "s", "i", "o", "n", "-", "i", "d", ">", "<", "/", "h",
          "e", "l", "l", "o", ">">>,
      capabilities_close_hello |->
          <<"<", "/", "c", "a", "p", "a", "b", "i", "l", "i", "t", "i", "e", "s", ">", "<",
          "/", "h", "e", "l", "l", "o", ">">> ]

T_chunk_intro ==
    <<"\n", "#">>

T_newline ==
    <<"\n">>

T_end_of_chunks ==
    <<"\n", "#", "#", "\n">>

T_end_of_chunks_token ==
    <<"#", "\n">>

(***************************************************************************)
(* The transport's answer to one nc_write call (wplan holds the answers to *)
(* the coming calls; when it is used up every further call succeeds):      *)
(*   W_OK         connected, and the write calls take every byte;          *)
(*   W_HUP        the poll of nc_session_is_connected reports POLLHUP or   *)
(*                POLLERR, or fails;                                       *)
(*   W_ERR        connected, and the first write call returns an error;    *)
(*   W_SHORT_ERR  connected, the first write call takes one byte and the   *)
(*                next one returns an error;                               *)
(*   W_CLOSED     connected, but the SSH channel is closed or at EOF.      *)
(***************************************************************************)
W_OK == "W_OK"
W_HUP == "W_HUP"
W_ERR == "W_ERR"
W_SHORT_ERR == "W_SHORT_ERR"
W_CLOSED == "W_CLOSED"

\* bytes reach the transport (late counts those written after a failed write)
Emit(w, bytes) ==
    [w EXCEPT !.out = @ \o bytes,
              !.late = @ + (IF w.wfailed THEN Len(bytes) ELSE 0)]

\* a write on the transport failed
WriteFailed(w) == [w EXCEPT !.wfailed = TRUE]

WriteResult(w, ret) == [w |-> w, ret |-> ret]

POLLIN == "POLLIN"
POLLHUP == "POLLHUP"
POLLERR == "POLLERR"
EBADF == "EBADF"

ConnectedResult(w, ret) == [w |-> w, ret |-> ret]

\* a check that always finds the peer there
nc_session_is_connected_always(w, polls) == ConnectedResult(w, 1)

\* a check that looks for the hang-up only
nc_session_is_connected_hup_only(w, polls) ==
    ConnectedResult(w, IF w.ti_type = NC_TI_NONE \/ POLLHUP \in polls[Len(polls)].revents
                       THEN 0 ELSE 1)

(***************************************************************************)
(* nc_session_is_connected.  polls holds what the calls of poll() on the   *)
(* session's descriptor answer, one record [ret, revents, errno] a call:   *)
(* the poll is called again while it fails with EINTR.                     *)
(***************************************************************************)
RECURSIVE nc_session_is_connected(_, _)
nc_session_is_connected(w, polls) ==
    IF w.ti_type = NC_TI_NONE THEN ConnectedResult(w, 0)
    ELSE
      LET p == Head(polls)
      IN  IF p.ret = -1 /\ p.errno = EINTR THEN nc_session_is_connected(w, Tail(polls))
          ELSE IF p.ret = -1 THEN ConnectedResult(w, 0)
          ELSE IF p.ret > 0 /\ p.revents \cap {POLLHUP, POLLERR} # {} THEN ConnectedResult(w, 0)
          ELSE ConnectedResult(w, 1)

\* the polls that the answer to a write stands for
ConnectedPolls(answer) ==
    IF answer = W_HUP
    THEN <<[ret |-> 1, revents |-> {POLLHUP}, errno |-> ""]>>
    ELSE <<[ret |-> 0, revents |-> {}, errno |-> ""]>>

nc_write(w, buf) ==
    IF ~StatusUsable(w.status) THEN WriteResult(w, -1)
    ELSE
      LET answer == IF w.wplan = <<>> THEN W_OK ELSE Head(w.wplan)
          w1 == [w EXCEPT !.wplan = IF @ = <<>> THEN @ ELSE Tail(@)]
          count == Len(buf)
      IN  IF nc_session_is_connected(w, ConnectedPolls(answer)).ret = 0
          THEN WriteResult(WriteFailed(Invalidate(w1, NC_SESSION_TERM_DROPPED)), -1)
          ELSE IF w.ti_type = NC_TI_LIBSSH /\ answer = W_CLOSED
          THEN WriteResult(WriteFailed(Invalidate(w1, NC_SESSION_TERM_DROPPED)), -1)
          ELSE IF answer = W_ERR
          THEN WriteResult(WriteFailed(w1), -1)
          ELSE IF answer = W_SHORT_ERR /\ count > 1
          THEN WriteResult(WriteFailed(Emit(w1, SubSeq(buf, 1, 1))), -1)
          ELSE WriteResult(Emit(w1, buf), count)

\* r failed: -1; else the bytes counted so far and those of r
Counted(sofar, r) ==
    IF r.ret = -1 THEN WriteResult(r.w, -1) ELSE WriteResult(r.w, sofar + r.ret)

\* io.c:669-673: the chunk after its header, whose write gave h
nc_write_starttag_msg(h, buf) ==
    IF h.ret = -1 THEN WriteResult(h.w, -1) ELSE Counted(h.ret, nc_write(h.w, buf))

nc_write_starttag_and_msg(w, buf) ==
    nc_write_starttag_msg(
        IF w.version = NC_VERSION_11
        THEN nc_write(w, T_chunk_intro \o Dec(Len(buf)) \o T_newline)
        ELSE WriteResult(w, 0),
        buf)

\* an end tag that forgets the version
nc_write_endtag_v10(w) == nc_write(w, NC_VERSION_10_ENDTAG)

nc_write_endtag(w) ==
    nc_write(w, IF w.version = NC_VERSION_11 THEN T_end_of_chunks ELSE NC_VERSION_10_ENDTAG)

\* a flush that leaves the staged bytes where they are
nc_write_clb_flushed_keeps_len(r) == r

\* warg->len = 0, whatever the write gave
nc_write_clb_flushed(r) == WriteResult([r.w EXCEPT !.warg = <<>>], r.ret)

nc_write_clb_flush(w) ==
    IF Len(w.warg) # 0
    THEN nc_write_clb_flushed(nc_write_starttag_and_msg(w, w.warg))
    ELSE WriteResult(w, 0)

\* an escape that leaves the ampersand as it is
EscapeByte_keeps_amp(c) ==
    CASE c = "<" -> <<"&", "l", "t", ";">>
      [] c = ">" -> <<"&", "g", "t", ";">>
      [] OTHER -> <<c>>

\* an escape that copies the greater-than sign
EscapeByte_plain_gt(c) ==
    CASE c = "&" -> <<"&", "a", "m", "p", ";">>
      [] c = "<" -> <<"&", "l", "t", ";">>
      [] OTHER -> <<c>>

\* the escape of one byte of content (io.c:763-784)
EscapeByte(c) ==
    CASE c = "&" -> <<"&", "a", "m", "p", ";">>
      [] c = "<" -> <<"&", "l", "t", ";">>
      [] c = ">" -> <<"&", "g", "t", ";">>
      [] OTHER -> <<c>>

\* a test that finds the buffer full when no byte fits
ContentBufferFull_late(len) == len >= WRITE_BUFSIZE

\* the test that flushes the staging buffer before the next byte of content
ContentBufferFull(len) == len + 5 >= WRITE_BUFSIZE

\* the escape of the bytes s, byte by byte
RECURSIVE Escape(_)
Escape(s) ==
    IF Len(s) = 0 THEN <<>>
    ELSE IF Len(s) = 1 THEN EscapeByte(s[1])
    ELSE Escape(SubSeq(s, 1, Len(s) \div 2)) \o Escape(SubSeq(s, Len(s) \div 2 + 1, Len(s)))

\* the number of bytes of buf, from buf[l] on, that the loop stages before
\* the test finds the buffer full; len is warg->len at the start
\* with k of them staged the test does not find the buffer full, and the
\* loop stages one more
Fits(len, buf, l, k) == ~ContentBufferFull(len + Len(Escape(SubSeq(buf, l, l + k - 1))))

\* the largest k of lo..hi that fits, when lo does (the staged bytes only grow)
RECURSIVE LastFit(_, _, _, _, _)
LastFit(len, buf, l, lo, hi) ==
    IF lo = hi THEN lo
    ELSE IF Fits(len, buf, l, (lo + hi + 1) \div 2)
    THEN LastFit(len, buf, l, (lo + hi + 1) \div 2, hi)
    ELSE LastFit(len, buf, l, lo, (lo + hi + 1) \div 2 - 1)

StagedBytes(len, buf, count, l) ==
    IF Fits(len, buf, l, 0) THEN LastFit(len, buf, l, 0, count - l) + 1 ELSE 0

\* the loop over the bytes of content (io.c:754-785): l is the index of the
\* next byte.  The turns between two flushes are made at once.
RECURSIVE nc_write_clb_content(_, _, _, _, _)
\* the turns that stage the escape e of the next n bytes
nc_write_clb_stage(w, buf, count, l, ret, n, e) ==
    nc_write_clb_content([w EXCEPT !.warg = @ \o e], buf, count, l + n, ret + Len(e))

\* the turns after the flush, if there was one, that gave f
nc_write_clb_turns(f, buf, count, l, ret, n) ==
    IF f.ret = -1 THEN WriteResult(f.w, -1)
    ELSE nc_write_clb_stage(f.w, buf, count, l, ret, n, Escape(SubSeq(buf, l, l + n - 1)))

nc_write_clb_flush_full(w) ==
    IF ContentBufferFull(Len(w.warg)) THEN nc_write_clb_flush(w) ELSE WriteResult(w, 0)

nc_write_clb_content(w, buf, count, l, ret) ==
    IF l > count THEN WriteResult(w, ret)
    ELSE nc_write_clb_turns(nc_write_clb_flush_full(w), buf, count, l, ret,
                            StagedBytes(IF ContentBufferFull(Len(w.warg)) THEN 0
                                        ELSE Len(w.warg),
                                        buf, count, l))

\* io.c:720-793 after the flush, if there was one, that gave c
nc_write_clb_after_flush(c, buf, count, xmlcontent) ==
    IF c.ret = -1 THEN WriteResult(c.w, -1)
    ELSE IF buf = NULL THEN Counted(c.ret, nc_write_endtag(c.w))
    ELSE IF xmlcontent = 0 /\ count > WRITE_BUFSIZE
    THEN Counted(c.ret, nc_write_starttag_and_msg(c.w, SubSeq(buf, 1, count)))
    ELSE IF xmlcontent # 0
    THEN nc_write_clb_content(c.w, buf, count, 1, c.ret)
    ELSE WriteResult([c.w EXCEPT !.warg = @ \o SubSeq(buf, 1, count)], c.ret + count)

\* a writer that flushes at the end of the message only
nc_write_clb_flush_at_end(w, buf, count, xmlcontent) ==
    nc_write_clb_after_flush(
        IF buf = NULL THEN nc_write_clb_flush(w) ELSE WriteResult(w, 0),
        buf, count, xmlcontent)

\* a NULL buf ends the message: flush; else flush when buf does not fit (io.c:731)
nc_write_clb(w, buf, count, xmlcontent) ==
    nc_write_clb_after_flush(
        IF buf = NULL \/ (Len(w.warg) # 0 /\ Len(w.warg) + count > WRITE_BUFSIZE)
        THEN nc_write_clb_flush(w)
        ELSE WriteResult(w, 0),
        buf, count, xmlcontent)

nc_write_xmlclb(w, buf, count) == nc_write_clb(w, buf, count, 0)

(***************************************************************************)
(* A message is serialized by a run of nc_write_clb calls whose return     *)
(* values the callers ignore (nc_write_error and nc_write_msg never test   *)
(* them).  A call is the buffer, the count and the xmlcontent flag handed  *)
(* to nc_write_clb.                                                        *)
(***************************************************************************)
Call(buf, count, xmlcontent) == [buf |-> buf, count |-> count, xmlcontent |-> xmlcontent]

\* a string literal written with its own length, raw
Lit(s) == Call(s, Len(s), 0)

\* a C string written with strlen, as content
Content(s) == Call(s, Len(s), 1)

RECURSIVE Flatten(_)
Flatten(ss) == IF ss = <<>> THEN <<>> ELSE Head(ss) \o Flatten(Tail(ss))

\* lyxml_print_clb and lyd_print_clb hand the printed tree to nc_write_xmlclb
\* piece by piece, every piece, whatever nc_write_xmlclb returns
PrintCalls(pieces) == [i \in 1..Len(pieces) |-> Lit(pieces[i])]

RECURSIVE nc_write_calls(_, _)
nc_write_calls(w, calls) ==
    IF calls = <<>> THEN w
    ELSE IF Len(calls) = 1
         THEN LET c == Head(calls)
              IN  nc_write_clb(w, c.buf, c.count, c.xmlcontent).w
         ELSE LET half == Len(calls) \div 2
                  done == nc_write_calls(w, SubSeq(calls, 1, half))
              IN  \* the first calls have returned when the next call is made
                  IF Len(done.out) >= 0
                  THEN nc_write_calls(done, SubSeq(calls, half + 1, Len(calls)))
                  ELSE done

(***************************************************************************)
(* nc_write_error: the calls that serialize one struct nc_server_error.    *)
(* A NULL string field is NULL, a missing session-id is -1.                *)
(***************************************************************************)
\* an error-info that is written for a session-id only
ErrorInfoCalls_for_sid(err) ==
    IF err.sid > -1
    THEN <<Lit(ErrorText.error_info_open), Lit(ErrorText.session_id_open), Lit(Dec(err.sid)),
           Lit(ErrorText.session_id_close), Lit(ErrorText.error_info_close)>>
    ELSE <<>>

ErrorInfoCalls(err) ==
    IF err.sid > -1 \/ err.attr # <<>> \/ err.elem # <<>> \/ err.ns # <<>> \/ err.other # <<>>
    THEN <<Lit(ErrorText.error_info_open)>>
         \o (IF err.sid > -1
             THEN <<Lit(ErrorText.session_id_open), Lit(Dec(err.sid)), Lit(ErrorText.session_id_close)>>
             ELSE <<>>)
         \o Flatten([i \in 1..Len(err.attr) |->
                <<Lit(ErrorText.bad_attribute_open), Content(err.attr[i]), Lit(ErrorText.bad_attribute_close)>>])
         \o Flatten([i \in 1..Len(err.elem) |->
                <<Lit(ErrorText.bad_element_open), Content(err.elem[i]), Lit(ErrorText.bad_element_close)>>])
         \o Flatten([i \in 1..Len(err.ns) |->
                <<Lit(ErrorText.bad_namespace_open), Content(err.ns[i]), Lit(ErrorText.bad_namespace_close)>>])
         \o Flatten([i \in 1..Len(err.other) |-> PrintCalls(err.other[i])])
         \o <<Lit(ErrorText.error_info_close)>>
    ELSE <<>>

ErrorMessageCalls(err) ==
    IF err.message # NULL
    THEN <<Lit(ErrorText.error_message_open)>>
         \o (IF err.message_lang # NULL
             THEN <<Lit(ErrorText.xml_lang), Content(err.message_lang), Lit(ErrorText.quote)>>
             ELSE <<>>)
         \o <<Lit(ErrorText.gt), Content(err.message), Lit(ErrorText.error_message_close)>>
    ELSE <<>>

nc_write_error_calls(err) ==
    LET head == <<Lit(ErrorText.rpc_error_open), Lit(ErrorText.error_type_open)>>
        typed == head \o <<Lit(ErrTypeText[err.type]), Lit(ErrorText.error_type_close),
                           Lit(ErrorText.error_tag_open)>>
    IN  IF err.type \notin DOMAIN ErrTypeText THEN head
        ELSE IF err.tag \notin DOMAIN ErrTagText THEN typed
        ELSE typed
             \o <<Lit(ErrTagText[err.tag]), Lit(ErrorText.error_tag_close), Lit(ErrorText.error_severity)>>
             \o (IF err.apptag # NULL
                 THEN <<Lit(ErrorText.error_app_tag_open), Content(err.apptag),
                        Lit(ErrorText.error_app_tag_close)>>
                 ELSE <<>>)
             \o (IF err.path # NULL
                 THEN <<Lit(ErrorText.error_path_open), Content(err.path), Lit(ErrorText.error_path_close)>>
                 ELSE <<>>)
             \o ErrorMessageCalls(err)
             \o ErrorInfoCalls(err)
             \o <<Lit(ErrorText.rpc_error_close)>>

nc_write_error(w, err) == nc_write_calls(w, nc_write_error_calls(err))

(***************************************************************************)
(* nc_write_msg.  The variadic arguments are the record m:                 *)
(*   NC_MSG_RPC    content (the pieces lyd_print_clb prints), attrs        *)
(*   NC_MSG_REPLY  rpc_elem (NULL_ELEM or the parsed <rpc>), reply         *)
(*   NC_MSG_NOTIF  eventtime, tree (pieces)                                *)
(*   NC_MSG_HELLO  capabilities, sid (-1 for a NULL pointer)               *)
(***************************************************************************)
NC_RPL_OK == "NC_RPL_OK"
NC_RPL_DATA == "NC_RPL_DATA"
NC_RPL_ERROR == "NC_RPL_ERROR"

\* lyxml_print_clb(..., LYXML_PRINT_ATTRS): the attributes of the element, one piece each
AttrPieces(elem) ==
    [i \in 1..Len(elem.attrs) |->
        <<" ">> \o elem.attrs[i].name \o <<"=", "\"">> \o elem.attrs[i].value \o <<"\"">>]

HasPrefix(elem) == ~elem.null /\ elem.has_ns /\ elem.prefix # <<>>

RpcCalls(w, m) ==
    <<Lit(MsgText.rpc_open \o NC_NS_BASE \o MsgText.message_id \o Dec(w.msgid + 1) \o MsgText.quote
          \o (IF m.attrs = NULL THEN <<>> ELSE m.attrs) \o MsgText.gt)>>
    \o PrintCalls(m.content)
    \o <<Lit(MsgText.rpc_close)>>

ReplyHeadCalls(m) ==
    (IF HasPrefix(m.rpc_elem)
     THEN <<Lit(MsgText.lt), Call(m.rpc_elem.prefix, Len(m.rpc_elem.prefix), 0),
            Lit(MsgText.colon_rpc_reply)>>
     ELSE <<Lit(MsgText.rpc_reply_open)>>)
    \o (IF ~m.rpc_elem.null
        THEN PrintCalls(AttrPieces(m.rpc_elem)) \o <<Lit(MsgText.gt)>>
        ELSE <<Call(MsgText.xmlns_eq \o NC_NS_BASE \o MsgText.quote_gt, 48, 0)>>)

ReplyBodyCalls(m) ==
    CASE m.reply.type = NC_RPL_OK -> <<Lit(MsgText.ok)>>
      [] m.reply.type = NC_RPL_DATA -> PrintCalls(m.reply.data)
      [] m.reply.type = NC_RPL_ERROR ->
            Flatten([i \in 1..Len(m.reply.err) |-> nc_write_error_calls(m.reply.err[i])])

ReplyTailCalls(m) ==
    IF HasPrefix(m.rpc_elem)
    THEN <<Lit(MsgText.lt_slash), Call(m.rpc_elem.prefix, Len(m.rpc_elem.prefix), 0),
           Lit(MsgText.colon_rpc_reply_gt)>>
    ELSE <<Lit(MsgText.rpc_reply_close)>>

NotifCalls(m) ==
    <<Call(MsgText.notification_open \o NC_NS_NOTIF \o MsgText.quote_gt, 21 + 47 + 2, 0),
      Lit(MsgText.eventTime_open),
      Call(m.eventtime, Len(m.eventtime), 0),
      Lit(MsgText.eventTime_close)>>
    \o PrintCalls(m.tree)
    \o <<Call(MsgText.notification_close, 12, 0)>>

HelloCalls(m) ==
    <<Lit(MsgText.hello_open \o NC_NS_BASE \o MsgText.capabilities_open)>>
    \o Flatten([i \in 1..Len(m.capabilities) |->
           <<Lit(MsgText.capability_open), Content(m.capabilities[i]), Lit(MsgText.capability_close)>>])
    \o (IF m.sid # -1
        THEN <<Lit(MsgText.capabilities_close_sid \o Dec(m.sid) \o MsgText.sid_close_hello)>>
        ELSE <<Lit(MsgText.capabilities_close_hello)>>)

\* a reply of a type that the switch of io.c:1043 does not know
UnknownReply(m) ==
    m.type = NC_MSG_REPLY /\ m.reply.type \notin {NC_RPL_OK, NC_RPL_DATA, NC_RPL_ERROR}

\* the nc_write_clb calls of the message's case in the switch of io.c:986
MsgCalls(w, m) ==
    CASE m.type = NC_MSG_RPC -> RpcCalls(w, m)
      [] m.type = NC_MSG_REPLY ->
            IF UnknownReply(m) THEN ReplyHeadCalls(m)
            ELSE ReplyHeadCalls(m) \o ReplyBodyCalls(m) \o ReplyTailCalls(m)
      [] m.type = NC_MSG_NOTIF -> NotifCalls(m)
      [] m.type = NC_MSG_HELLO -> HelloCalls(m)

\* a counter that moves on only when every write went through
NextMsgid_on_success(w, m) ==
    IF m.type = NC_MSG_RPC /\ ~w.wfailed THEN [w EXCEPT !.msgid = @ + 1] ELSE w

\* a counter that never moves
NextMsgid_stays(w, m) == w

\* session->msgid++ (io.c:1008)
NextMsgid(w, m) == IF m.type = NC_MSG_RPC THEN [w EXCEPT !.msgid = @ + 1] ELSE w

\* io.c:1063 and io.c:1131-1137: after the flush f, report by the session's status
nc_write_msg_finish(f, m) ==
    IF UnknownReply(m) THEN WriteResult(f.w, -1)
    ELSE IF ~StatusUsable(f.w.status) THEN WriteResult(f.w, -1)
    ELSE WriteResult(f.w, 0)

nc_write_msg(w, m) ==
    IF ~StatusUsable(w.status) THEN WriteResult(w, -1)
    ELSE IF m.type \notin {NC_MSG_RPC, NC_MSG_REPLY, NC_MSG_NOTIF, NC_MSG_HELLO}
    THEN WriteResult(w, -1)
    ELSE IF m.type = NC_MSG_HELLO /\ w.version # NC_VERSION_10 THEN WriteResult(w, -1)
    ELSE nc_write_msg_finish(
             nc_write_clb(
                 NextMsgid(nc_write_calls([w EXCEPT !.warg = <<>>], MsgCalls(w, m)), m),
                 NULL, 0, 0),
             m)

(***************************************************************************)
(* nc_err(NC_ERR_MALFORMED_MSG) and nc_server_reply_err: the reply that    *)
(* the malformed-message responder sends, an rpc-error of type rpc, tag    *)
(* malformed-message and nothing else.                                     *)
(***************************************************************************)
nc_err_malformed_msg ==
    [type |-> "NC_ERR_TYPE_RPC", tag |-> "NC_ERR_MALFORMED_MSG", apptag |-> NULL,
     path |-> NULL, message |-> NULL, message_lang |-> NULL, sid |-> -1,
     attr |-> <<>>, elem |-> <<>>, ns |-> <<>>, other |-> <<>>]

nc_server_reply_err(err) == [type |-> NC_RPL_ERROR, err |-> <<err>>]

MalformedReply ==
    [type |-> NC_MSG_REPLY, rpc_elem |-> NULL_ELEM,
     reply |-> nc_server_reply_err(nc_err_malformed_msg)]

(***************************************************************************)
(* nc_read_msg.  fault names the place the call left the happy path:       *)
(*   "state"      the status gate (io.c:273);                              *)
(*   "transport"  a goto error: a read failed (io.c:283, 293, 297, 321);   *)
(*   "framing"    goto malformed_msg from the chunk reader (io.c:305, 315);*)
(*   "parse"      lyxml_parse_mem returned NULL (io.c:343);                *)
(*   "namespace"  the root has no namespace (io.c:346);                    *)
(*   "root"       the root is none of the four known ones (io.c:361-372).  *)
(***************************************************************************)
ReadMsgResult(w, ret, data, fault) == [w |-> w, ret |-> ret, data |-> data, fault |-> fault]

\* what the framing layer hands on: go is "ok", "error" or "malformed_msg"
Framed(w, go, msg) == [w |-> w, go |-> go, msg |-> msg]

\* io.c:282-287: the input up to the end tag was read with result r
nc_read_msg_v10_cut(r) ==
    IF r.ret = -1 THEN Framed(r.w, "error", <<>>)
    ELSE Framed(r.w, "ok", SubSeq(r.buf, 1, r.ret - NC_VERSION_10_ENDTAG_LEN))

\* a reader that leaves the end tag on the body
nc_read_msg_v10_keeps_endtag(w, rt) ==
    LET r == nc_read_until(w, NC_VERSION_10_ENDTAG, rt)
    IN  IF r.ret = -1 THEN Framed(r.w, "error", <<>>) ELSE Framed(r.w, "ok", r.buf)

nc_read_msg_v10(w, rt) == nc_read_msg_v10_cut(nc_read_until(w, NC_VERSION_10_ENDTAG, rt))

RECURSIVE nc_read_msg_v11(_, _, _)
\* io.c:320-336: the chunk's payload was read with result r3
nc_read_msg_v11_chunk(r3, msg) ==
    IF r3.ret = -1 THEN Framed(r3.w, "error", msg)
    ELSE nc_read_msg_v11(r3.w, r3.rt, msg \o r3.buf)

\* io.c:296-319: the line after "\n#" was read with result r2
nc_read_msg_v11_len(r2, msg) ==
    IF r2.ret = -1 THEN Framed(r2.w, "error", msg)
    ELSE IF r2.buf = T_end_of_chunks_token
    THEN (IF msg = <<>> THEN Framed(r2.w, "malformed_msg", msg)
          ELSE Framed(r2.w, "ok", msg))
    ELSE IF strtoul(r2.buf) = 0 THEN Framed(r2.w, "malformed_msg", msg)
    \* a wrapped length: the allocation of such a chunk fails (io.c:173-177)
    ELSE IF strtoul(r2.buf) < 0 THEN Framed(r2.w, "error", msg)
    ELSE nc_read_msg_v11_chunk(nc_read_chunk(r2.w, strtoul(r2.buf), r2.rt), msg)

\* io.c:291-295: the input up to "\n#" was read with result r1
nc_read_msg_v11_intro(r1, msg) ==
    IF r1.ret = -1 THEN Framed(r1.w, "error", msg)
    ELSE nc_read_msg_v11_len(nc_read_until(r1.w, T_newline, r1.rt), msg)

nc_read_msg_v11(w, rt, msg) ==
    nc_read_msg_v11_intro(nc_read_until(w, T_chunk_intro, rt), msg)

\* a responder that forgets the protocol version
MalformedReplies_any_version(w) == w.side = NC_SERVER

\* a responder that forgets the side
MalformedReplies_any_side(w) == w.version = NC_VERSION_11

\* io.c:375-398: the labels malformed_msg and error
MalformedReplies(w) == w.side = NC_SERVER /\ w.version = NC_VERSION_11

\* a failed reply that gives the reason Other whatever the session holds
nc_read_msg_replied_overwrites(r, fault) ==
    ReadMsgResult(IF r.ret = -1
                  THEN Invalidate(r.w, NC_SESSION_TERM_OTHER)
                  ELSE r.w,
                  NC_MSG_ERROR, NULL_ELEM, fault)

\* io.c:379-384: nc_write_msg of the reply gave r
nc_read_msg_replied(r, fault) ==
    ReadMsgResult(IF r.ret = -1 /\ r.w.status # NC_STATUS_INVALID
                  THEN Invalidate(r.w, NC_SESSION_TERM_OTHER)
                  ELSE r.w,
                  NC_MSG_ERROR, NULL_ELEM, fault)

nc_read_msg_malformed(w, fault) ==
    IF MalformedReplies(w)
    THEN nc_read_msg_replied(nc_write_msg(w, MalformedReply), fault)
    ELSE ReadMsgResult(w, NC_MSG_ERROR, NULL_ELEM, fault)

\* io.c:340-373: the message type that the parsed root data tells, and the
\* fault when it tells none
Classified(type, fault) == [type |-> type, fault |-> fault]

\* a classifier that looks at the name and not at the namespace
nc_read_msg_classify_by_name(data) ==
    IF data.null THEN Classified(NC_MSG_ERROR, "parse")
    ELSE IF ~data.has_ns THEN Classified(NC_MSG_ERROR, "namespace")
    ELSE CASE data.name = <<"r", "p", "c">> -> Classified(NC_MSG_RPC, "none")
           [] data.name = <<"r", "p", "c", "-", "r", "e", "p", "l", "y">> ->
                  Classified(NC_MSG_REPLY, "none")
           [] data.name = <<"h", "e", "l", "l", "o">> -> Classified(NC_MSG_HELLO, "none")
           [] data.name = <<"n", "o", "t", "i", "f", "i", "c", "a", "t", "i", "o", "n">> ->
                  Classified(NC_MSG_NOTIF, "none")
           [] OTHER -> Classified(NC_MSG_ERROR, "root")

nc_read_msg_classify(data) ==
    IF data.null THEN Classified(NC_MSG_ERROR, "parse")
    ELSE IF ~data.has_ns THEN Classified(NC_MSG_ERROR, "namespace")
    ELSE IF data.ns = NC_NS_BASE
    THEN (CASE data.name = <<"r", "p", "c">> -> Classified(NC_MSG_RPC, "none")
            [] data.name = <<"r", "p", "c", "-", "r", "e", "p", "l", "y">> ->
                   Classified(NC_MSG_REPLY, "none")
            [] data.name = <<"h", "e", "l", "l", "o">> -> Classified(NC_MSG_HELLO, "none")
            [] OTHER -> Classified(NC_MSG_ERROR, "root"))
    ELSE IF data.ns = NC_NS_NOTIF
    THEN (IF data.name = <<"n", "o", "t", "i", "f", "i", "c", "a", "t", "i", "o", "n">>
          THEN Classified(NC_MSG_NOTIF, "none")
          ELSE Classified(NC_MSG_ERROR, "root"))
    ELSE Classified(NC_MSG_ERROR, "root")

\* an error path that leaves the parsed tree with the caller
nc_read_msg_parsed_keeps_tree(w, data, c) ==
    IF c.fault = "none" THEN ReadMsgResult(w, c.type, data, "none")
    ELSE ReadMsgResult(w, NC_MSG_ERROR, data, c.fault)

\* the message is data, classified as c
nc_read_msg_parsed(w, data, c) ==
    IF c.fault = "none" THEN ReadMsgResult(w, c.type, data, "none")
    ELSE nc_read_msg_malformed(w, c.fault)

\* the framing layer gave f
nc_read_msg_framed(f, data) ==
    IF f.go = "error" THEN ReadMsgResult(f.w, NC_MSG_ERROR, NULL_ELEM, "transport")
    ELSE nc_read_msg_parsed(f.w, data,
                            IF f.go = "malformed_msg"
                            THEN Classified(NC_MSG_ERROR, "framing")
                            ELSE nc_read_msg_classify(data))

nc_read_msg_body(f) == nc_read_msg_framed(f, lyxml_parse_mem(f.msg))

\* io.c:278-338: read the message, by the session's version
nc_read_msg_frame(w) ==
    IF w.version = NC_VERSION_10
    THEN nc_read_msg_v10(w, NC_READ_TIMEOUT)
    ELSE nc_read_msg_v11(w, NC_READ_TIMEOUT, <<>>)

nc_read_msg(w) ==
    IF ~StatusUsable(w.status) THEN ReadMsgResult(w, NC_MSG_ERROR, NULL_ELEM, "state")
    ELSE nc_read_msg_body(nc_read_msg_frame(w))

(***************************************************************************)
(* nc_read_poll and nc_read_msg_poll.  The answer of the poll is the       *)
(* record p: for NC_TI_FD and NC_TI_OPENSSL, ret and revents of poll();    *)
(* for NC_TI_LIBSSH, ssh is what ssh_channel_poll_timeout returned         *)
(* (SSH_ERROR, SSH_EOF, or the number of readable bytes).                  *)
(***************************************************************************)
SSH_ERROR == -1

SSH_EOF == -127

PollResult(w, ret) == [w |-> w, ret |-> ret]

\* io.c:468-491: the result of the poll, the same for poll() and the SSH channel poll
nc_read_poll_result(w, ret, revents) ==
    IF ret < 0 THEN PollResult(Invalidate(w, NC_SESSION_TERM_OTHER), -1)
    ELSE IF POLLHUP \in revents THEN PollResult(Invalidate(w, NC_SESSION_TERM_DROPPED), -1)
    ELSE IF POLLERR \in revents THEN PollResult(Invalidate(w, NC_SESSION_TERM_OTHER), -1)
    ELSE PollResult(w, ret)

\* a poll that takes a timeout for a failure of the poll
nc_read_poll_timeout_fails(w, p) ==
    IF ~StatusUsable(w.status) THEN PollResult(w, -1)
    ELSE CASE w.ti_type = NC_TI_LIBSSH ->
                IF p.ssh = SSH_EOF
                THEN PollResult(Invalidate(w, NC_SESSION_TERM_DROPPED), -1)
                ELSE IF p.ssh > 0 THEN nc_read_poll_result(w, 1, {POLLIN})
                ELSE PollResult(Invalidate(w, NC_SESSION_TERM_OTHER), -1)
           [] w.ti_type \in {NC_TI_OPENSSL, NC_TI_FD} ->
                nc_read_poll_result(w, IF p.ret = 0 THEN -1 ELSE p.ret, p.revents)
           [] OTHER -> PollResult(w, -1)

nc_read_poll(w, p) ==
    IF ~StatusUsable(w.status) THEN PollResult(w, -1)
    ELSE CASE w.ti_type = NC_TI_LIBSSH ->
                IF p.ssh = SSH_ERROR THEN PollResult(Invalidate(w, NC_SESSION_TERM_OTHER), -1)
                ELSE IF p.ssh = SSH_EOF
                THEN PollResult(Invalidate(w, NC_SESSION_TERM_DROPPED), -1)
                ELSE IF p.ssh > 0 THEN nc_read_poll_result(w, 1, {POLLIN})
                ELSE nc_read_poll_result(w, 0, {})
           [] w.ti_type \in {NC_TI_OPENSSL, NC_TI_FD} ->
                nc_read_poll_result(w, p.ret, p.revents)
           [] OTHER -> PollResult(w, -1)

\* io.c:508-517: nc_read_poll gave r
nc_read_msg_polled(r) ==
    IF r.ret = 0 THEN ReadMsgResult(r.w, NC_MSG_WOULDBLOCK, NULL_ELEM, "timeout")
    ELSE IF r.ret < 0 THEN ReadMsgResult(r.w, NC_MSG_ERROR, NULL_ELEM, "poll")
    ELSE nc_read_msg(r.w)

nc_read_msg_poll(w, p) ==
    IF ~StatusUsable(w.status) THEN ReadMsgResult(w, NC_MSG_ERROR, NULL_ELEM, "state")
    ELSE nc_read_msg_polled(nc_read_poll(w, p))

(***************************************************************************)
(* Bounds of the model.                                                    *)
(***************************************************************************)
\* nc_write calls of one entry-point call whose outcome the transport chooses
MaxWrites == 3

\* the largest message-id counter a session reaches
MaxMsgid == 2

\* where the peer splits a body sent as two chunks
SplitAt == 4

(***************************************************************************)
(* What the peer sends: documents, framed for NETCONF 1.0 or 1.1, whole,   *)
(* cut short, or with a broken chunk header.                               *)
(***************************************************************************)
Attr(name, value) == <<" ">> \o name \o <<"=", "\"">> \o value \o <<"\"">>

StartTag(qname, attrs) == <<"<">> \o qname \o attrs \o <<">">>

EmptyTag(qname, attrs) == <<"<">> \o qname \o attrs \o <<"/", ">">>

EndTag(qname) == <<"<", "/">> \o qname \o <<">">>

S_xmlns == <<"x", "m", "l", "n", "s">>

S_message_id == <<"m", "e", "s", "s", "a", "g", "e", "-", "i", "d">>

S_rpc == <<"r", "p", "c">>

S_get == <<"g", "e", "t">>

S_hello == <<"h", "e", "l", "l", "o">>

S_rpc_reply == <<"r", "p", "c", "-", "r", "e", "p", "l", "y">>

S_notification == <<"n", "o", "t", "i", "f", "i", "c", "a", "t", "i", "o", "n">>

DocRpc ==
    StartTag(S_rpc, Attr(S_xmlns, NC_NS_BASE) \o Attr(S_message_id, <<"1">>))
    \o EmptyTag(S_get, <<>>) \o EndTag(S_rpc)

DocRpcPrefixed ==
    StartTag(<<"n", "c", ":">> \o S_rpc,
             Attr(S_xmlns \o <<":", "n", "c">>, NC_NS_BASE) \o Attr(S_message_id, <<"1">>))
    \o EndTag(<<"n", "c", ":">> \o S_rpc)

DocReply ==
    StartTag(S_rpc_reply, Attr(S_xmlns, NC_NS_BASE)) \o MsgText.ok \o EndTag(S_rpc_reply)

DocHello == EmptyTag(S_hello, Attr(S_xmlns, NC_NS_BASE))

DocNotif == EmptyTag(S_notification, Attr(S_xmlns, NC_NS_NOTIF))

\* not XML at all
DocNotXml == S_rpc

\* the root is never closed
DocUnclosed == StartTag(S_rpc, Attr(S_xmlns, NC_NS_BASE)) \o EmptyTag(S_get, <<>>)

DocNoNamespace == EmptyTag(S_rpc, Attr(S_message_id, <<"1">>))

DocUnknownRoot == EmptyTag(S_get, Attr(S_xmlns, NC_NS_BASE))

DocUnknownNamespace == EmptyTag(S_rpc, Attr(S_xmlns, <<"u", "r", "n", ":", "x">>))

\* a known name in the other namespace
DocRpcInNotifNamespace == EmptyTag(S_rpc, Attr(S_xmlns, NC_NS_NOTIF))

\* and the other way round
DocNotifInBaseNamespace == EmptyTag(S_notification, Attr(S_xmlns, NC_NS_BASE))

GoodDocs == {DocRpc, DocRpcPrefixed, DocReply, DocHello, DocNotif}

BadDocs ==
    {DocNotXml, DocUnclosed, DocNoNamespace, DocUnknownRoot, DocUnknownNamespace,
     DocRpcInNotifNamespace, DocNotifInBaseNamespace}

Docs == GoodDocs \cup BadDocs

Frame10(body) == body \o NC_VERSION_10_ENDTAG

Chunk(payload) == T_chunk_intro \o Dec(Len(payload)) \o T_newline \o payload

Frame11(body) == Chunk(body) \o T_end_of_chunks

Frame11Split(body) ==
    Chunk(SubSeq(body, 1, SplitAt)) \o Chunk(From(body, SplitAt + 1)) \o T_end_of_chunks

\* a chunk header of length 0, and an end of chunks before any chunk
ZeroChunk == T_chunk_intro \o <<"0">> \o T_newline

EarlyEnd == T_end_of_chunks

\* a chunk header of length 0 after a chunk
LateZeroChunk == Chunk(SubSeq(DocRpc, 1, SplitAt)) \o ZeroChunk

\* chunks that are not well-formed: a length with a sign, after a space, or
\* before a letter, and bytes between a chunk's payload and the next chunk
LooseChunk(token, payload) == T_chunk_intro \o token \o T_newline \o payload

SignedHeader == LooseChunk(<<"+">> \o Dec(Len(DocRpc)), DocRpc) \o T_end_of_chunks

SpacedHeader == LooseChunk(<<" ">> \o Dec(Len(DocRpc)), DocRpc) \o T_end_of_chunks

LetteredHeader == LooseChunk(Dec(Len(DocRpc)) \o <<"x">>, DocRpc) \o T_end_of_chunks

BytesBetween ==
    Chunk(SubSeq(DocRpc, 1, SplitAt)) \o <<"j", "u", "n", "k">>
    \o Chunk(From(DocRpc, SplitAt + 1)) \o T_end_of_chunks

LooseFrames == {SignedHeader, SpacedHeader, LetteredHeader, BytesBetween}

Inputs ==
    {Frame10(d) : d \in Docs}
    \cup {Frame11(d) : d \in Docs}
    \cup {Frame11Split(DocRpc), ZeroChunk, EarlyEnd, LateZeroChunk}
    \cup LooseFrames
    \cup {SubSeq(Frame10(DocRpc), 1, SplitAt) \o <<EOF>>,
          SubSeq(Frame11(DocRpc), 1, SplitAt + 4) \o <<ERR>>,
          \* the peer closes in the middle of a chunk
          SubSeq(Frame11(DocRpc), 1, SplitAt + 4) \o <<EOF>>,
          <<EOF>>,
          \* a would-block and, on a socket, an interrupted read in the middle
          SubSeq(Frame10(DocHello), 1, SplitAt) \o <<EAGAIN>>
              \o From(Frame10(DocHello), SplitAt + 1),
          SubSeq(Frame11(DocHello), 1, SplitAt) \o <<EINTR>>
              \o From(Frame11(DocHello), SplitAt + 1)}

(***************************************************************************)
(* What the callers write.                                                 *)
(***************************************************************************)
Filler(n) == [i \in 1..n |-> "x"]

\* an element of n bytes in all, printed in one piece
BigElement(n) == StartTag(<<"a">>, <<>>) \o Filler(n - 7) \o EndTag(<<"a">>)

Rpc(content) == [type |-> NC_MSG_RPC, content |-> content, attrs |-> NULL]

Reply(rpc_elem, reply) == [type |-> NC_MSG_REPLY, rpc_elem |-> rpc_elem, reply |-> reply]

Notif(eventtime, tree) == [type |-> NC_MSG_NOTIF, eventtime |-> eventtime, tree |-> tree]

Hello(capabilities, sid) == [type |-> NC_MSG_HELLO, capabilities |-> capabilities, sid |-> sid]

Messages ==
    {Rpc(<<EmptyTag(S_get, <<>>)>>),
     \* one piece larger than the staging area: the direct path
     Rpc(<<BigElement(WRITE_BUFSIZE + 1)>>),
     \* pieces that fill the staging area more than once
     Rpc(<<BigElement(WRITE_BUFSIZE - 24), BigElement(WRITE_BUFSIZE - 24)>>),
     Reply(lyxml_parse_mem(DocRpc), [type |-> NC_RPL_OK]),
     Reply(lyxml_parse_mem(DocRpcPrefixed), [type |-> NC_RPL_OK]),
     Reply(lyxml_parse_mem(DocRpc), [type |-> NC_RPL_DATA, data |-> <<EmptyTag(<<"a">>, <<>>)>>]),
     Reply(lyxml_parse_mem(DocRpc), [type |-> "NC_RPL_NOTIF"]),
     MalformedReply,
     Notif(<<"T">>, <<EmptyTag(<<"a">>, <<>>)>>),
     Hello(<<NC_NS_BASE, <<"a", "&", "b">>>>, 1),
     Hello(<<>>, -1),
     [type |-> NC_MSG_NONE]}

(***************************************************************************)
(* The transport's answers.                                                *)
(***************************************************************************)
WOutcomes(ti_type) ==
    CASE ti_type = NC_TI_NONE -> {W_OK}
      [] ti_type = NC_TI_LIBSSH -> {W_OK, W_HUP, W_ERR, W_SHORT_ERR, W_CLOSED}
      [] OTHER -> {W_OK, W_HUP, W_ERR, W_SHORT_ERR}

\* the answers to the nc_write calls of one entry-point call: one of the first
\* MaxWrites calls meets a fault, or none does
WPlans(ti_type) ==
    {<<>>}
    \cup {[i \in 1..k |-> IF i = k THEN f ELSE W_OK] :
             k \in 1..MaxWrites, f \in WOutcomes(ti_type) \ {W_OK}}

\* a read writes only where it answers a malformed message; elsewhere the
\* transport would take every byte
ReadPlans(s) == IF MalformedReplies(s) THEN WPlans(s.ti_type) ELSE {<<>>}

\* POLLIN only with something to read; a timeout also when the input came
\* after the poll had given up
PollAnswers(ti_type, input) ==
    CASE ti_type = NC_TI_LIBSSH ->
            {[ssh |-> SSH_ERROR], [ssh |-> SSH_EOF], [ssh |-> 0]}
            \cup (IF input = <<>> THEN {} ELSE {[ssh |-> 1]})
      [] ti_type = NC_TI_NONE -> {[ret |-> 0, revents |-> {}]}
      [] OTHER ->
            {[ret |-> -1, revents |-> {}], [ret |-> 0, revents |-> {}]}
            \cup {[ret |-> 1, revents |-> r \cup (IF input = <<>> THEN {} ELSE {POLLIN})] :
                     r \in (SUBSET {POLLHUP, POLLERR}) \ {{}}}
            \cup (IF input = <<>> THEN {} ELSE {[ret |-> 1, revents |-> {POLLIN}]})

(***************************************************************************)
(* The state machine.                                                      *)
(***************************************************************************)
World(s, input, plan) ==
    [status |-> s.status, term_reason |-> s.term_reason, side |-> s.side,
     version |-> s.version, ti_type |-> s.ti_type, msgid |-> s.msgid,
     inq |-> input, wplan |-> plan, out |-> <<>>, wfailed |-> FALSE, late |-> 0,
     warg |-> <<>>]

SessionOf(w) ==
    [status |-> w.status, term_reason |-> w.term_reason, side |-> w.side,
     version |-> w.version, ti_type |-> w.ti_type, msgid |-> w.msgid]

\* no call has returned since the caller took the last result
Idle ==
    [op |-> "idle", msg |-> [type |-> NC_MSG_NONE], plan |-> <<>>, ret |-> 0, type |-> NC_MSG_NONE,
     data |-> NULL_ELEM, fault |-> "none", out |-> <<>>, wfailed |-> FALSE, late |-> 0,
     pre |-> [status |-> NC_STATUS_STARTING], pre_inq |-> <<>>]

IsIdle == last.op = "idle"

Init ==
    /\ session \in [status : {NC_STATUS_STARTING}, term_reason : {NC_SESSION_TERM_NONE},
                    side : {NC_CLIENT, NC_SERVER}, version : {NC_VERSION_10},
                    ti_type : {NC_TI_NONE, NC_TI_FD, NC_TI_LIBSSH, NC_TI_OPENSSL},
                    msgid : {0}]
    /\ inq = <<>>
    /\ last = Idle

\* the hello exchange ends: the session runs with the negotiated version
HelloExchanged ==
    /\ IsIdle
    /\ session.status = NC_STATUS_STARTING
    /\ \E v \in {NC_VERSION_10, NC_VERSION_11} :
          session' = [session EXCEPT !.status = NC_STATUS_RUNNING, !.version = v]
    /\ UNCHANGED <<inq, last>>

\* the peer's hello is bad
BadHello ==
    /\ IsIdle
    /\ session.status = NC_STATUS_STARTING
    /\ session' = [session EXCEPT !.status = NC_STATUS_INVALID,
                                  !.term_reason = NC_SESSION_TERM_BADHELLO]
    /\ UNCHANGED <<inq, last>>

\* the session is closed or killed
ExplicitClose ==
    /\ IsIdle
    /\ session.status = NC_STATUS_RUNNING
    /\ \E r \in {NC_SESSION_TERM_CLOSED, NC_SESSION_TERM_KILLED} :
          session' = [session EXCEPT !.status = NC_STATUS_CLOSING, !.term_reason = r]
    /\ UNCHANGED <<inq, last>>

\* the peer sends when the session has read all it sent before
PeerSend ==
    /\ IsIdle
    /\ inq = <<>>
    /\ session.ti_type # NC_TI_NONE
    /\ inq' \in Inputs
    /\ UNCHANGED <<session, last>>

\* the call op returns: the session and the transport are as the call left
\* them, and last tells what the caller and the peer can see of the call
Return(op, msg, plan, w, ret, type, data, fault) ==
    /\ session' = SessionOf(w)
    /\ inq' = w.inq
    /\ last' = [op |-> op, msg |-> msg, plan |-> plan, ret |-> ret, type |-> type,
                data |-> data, fault |-> fault, out |-> w.out, wfailed |-> w.wfailed,
                late |-> w.late, pre |-> session, pre_inq |-> inq]

ReturnRead(op, plan, r) ==
    Return(op, [type |-> NC_MSG_NONE], plan, r.w, 0, r.ret, r.data, r.fault)

ReturnWrite(m, plan, r) ==
    Return("nc_write_msg", m, plan, r.w, r.ret, NC_MSG_NONE, NULL_ELEM, "none")

ReadMsg ==
    /\ IsIdle
    /\ \E plan \in ReadPlans(session) :
          ReturnRead("nc_read_msg", plan, nc_read_msg(World(session, inq, plan)))

\* the same for a read after the poll that answered p
ReturnPoll(p, plan, r) ==
    Return("nc_read_msg_poll", [type |-> NC_MSG_NONE, poll |-> p], plan, r.w, 0, r.ret, r.data,
           r.fault)

ReadMsgPoll ==
    /\ IsIdle
    /\ \E plan \in ReadPlans(session), p \in PollAnswers(session.ti_type, inq) :
          ReturnPoll(p, plan, nc_read_msg_poll(World(session, inq, plan), p))

\* the caller writes when it has read what the peer sent
WriteMsg ==
    /\ IsIdle
    /\ inq = <<>>
    /\ \E plan \in WPlans(session.ti_type), m \in Messages :
          /\ m.type = NC_MSG_RPC => session.msgid < MaxMsgid
          /\ ReturnWrite(m, plan, nc_write_msg(World(session, inq, plan), m))

\* the caller takes the result of the call
TakeResult ==
    /\ ~IsIdle
    /\ last' = Idle
    /\ UNCHANGED <<session, inq>>

Next ==
    \/ HelloExchanged
    \/ BadHello
    \/ ExplicitClose
    \/ PeerSend
    \/ ReadMsg
    \/ ReadMsgPoll
    \/ WriteMsg
    \/ TakeResult

Spec == Init /\ [][Next]_vars

(***************************************************************************)
(* What the caller and the peer see of the last call.                      *)
(***************************************************************************)
IsRead == last.op \in {"nc_read_msg", "nc_read_msg_poll"}

IsWrite == last.op = "nc_write_msg"

\* the call met a message that is no message: the faults that go to malformed_msg
Unclassifiable == {"parse", "namespace", "root"}

\* the session that the call was made on answers malformed messages
OnServer11 == last.pre.side = NC_SERVER /\ last.pre.version = NC_VERSION_11

IsInvalid(reason) ==
    session.status = NC_STATUS_INVALID /\ session.term_reason = reason

(***************************************************************************)
(* C1: an entry point (nc_read_msg, nc_read_msg_poll, nc_write_msg) called *)
(* on a session whose status is neither Starting nor Running fails         *)
(* (NC_MSG_ERROR, or -1), reads no byte of the input, writes no byte, and  *)
(* leaves status, term_reason and msgid as they were.                      *)
(***************************************************************************)
C1_GateRefuses ==
    (~IsIdle /\ last.pre.status \notin {NC_STATUS_STARTING, NC_STATUS_RUNNING}) =>
        /\ IsRead => last.type = NC_MSG_ERROR
        /\ IsWrite => last.ret = -1
        /\ inq = last.pre_inq
        /\ last.out = <<>>
        /\ session.status = last.pre.status
        /\ session.term_reason = last.pre.term_reason
        /\ session.msgid = last.pre.msgid

\* nc_read_msg was called on a closing session with input waiting
C1_Witness ==
    /\ last.op = "nc_read_msg"
    /\ last.pre.status = NC_STATUS_CLOSING
    /\ last.pre_inq # <<>>

(***************************************************************************)
(* C2: a session that is Invalid stays Invalid, and a call of an entry     *)
(* point that changes the status changes it to Invalid.                    *)
(***************************************************************************)
C2_InvalidIsFinal ==
    [][/\ session.status = NC_STATUS_INVALID => session'.status = NC_STATUS_INVALID
       /\ (IsIdle /\ last'.op # "idle" /\ session'.status # session.status)
              => session'.status = NC_STATUS_INVALID]_vars

\* nc_write_msg was called on a session that a read had made invalid
C2_Witness ==
    /\ last.op = "nc_write_msg"
    /\ last.pre.status = NC_STATUS_INVALID
    /\ last.pre.term_reason = NC_SESSION_TERM_DROPPED
    /\ session.status = NC_STATUS_INVALID

(***************************************************************************)
(* C3: an Invalid session has a term_reason other than None, and a call    *)
(* that makes the session Invalid leaves the reason Dropped or Other.      *)
(***************************************************************************)
C3_InvalidHasReason ==
    /\ session.status = NC_STATUS_INVALID => session.term_reason # NC_SESSION_TERM_NONE
    /\ (~IsIdle /\ last.pre.status # NC_STATUS_INVALID /\ session.status = NC_STATUS_INVALID)
           => session.term_reason \in {NC_SESSION_TERM_DROPPED, NC_SESSION_TERM_OTHER}

\* the poll of nc_read_msg_poll found the peer gone
C3_Witness ==
    /\ last.op = "nc_read_msg_poll"
    /\ last.fault = "poll"
    /\ last.pre.status = NC_STATUS_RUNNING
    /\ IsInvalid(NC_SESSION_TERM_DROPPED)

(***************************************************************************)
(* C4: nc_read_msg on a running server-side 1.1 session that receives the  *)
(* chunk header "\n#0\n" returns NC_MSG_ERROR and leaves the session       *)
(* Invalid with term_reason Other, also when the malformed-message reply   *)
(* was transmitted.                                                        *)
(***************************************************************************)
C4_ZeroChunkInvalidates ==
    (/\ last.op = "nc_read_msg"
     /\ OnServer11
     /\ last.pre.status = NC_STATUS_RUNNING
     /\ last.pre_inq = ZeroChunk) =>
        /\ last.type = NC_MSG_ERROR
        /\ IsInvalid(NC_SESSION_TERM_OTHER)

(***************************************************************************)
(* C5: the malformed-message reply on the wire is the one chunk            *)
(* <rpc-reply xmlns="(base namespace)">, the rpc-error of type rpc, tag    *)
(* malformed-message and severity error, </rpc-reply>, with a space        *)
(* between rpc-reply and xmlns.                                            *)
(***************************************************************************)
C5_Payload ==
    MsgText.rpc_reply_open \o <<" ">> \o MsgText.xmlns_eq \o NC_NS_BASE \o MsgText.quote_gt
    \o ErrorText.rpc_error_open
    \o ErrorText.error_type_open \o ErrTypeText.NC_ERR_TYPE_RPC \o ErrorText.error_type_close
    \o ErrorText.error_tag_open \o ErrTagText.NC_ERR_MALFORMED_MSG \o ErrorText.error_tag_close
    \o ErrorText.error_severity
    \o ErrorText.rpc_error_close
    \o MsgText.rpc_reply_close

C5_MalformedReplyText ==
    (/\ IsRead
     /\ OnServer11
     /\ last.fault \in Unclassifiable \cup {"framing"}
     /\ ~last.wfailed) =>
        last.out = Frame11(C5_Payload)

(***************************************************************************)
(* C6: when the transmission of the malformed-message reply fails, for     *)
(* whatever reason, nc_read_msg leaves the session Invalid with            *)
(* term_reason Other.                                                      *)
(***************************************************************************)
C6_FailedReplyInvalidates ==
    (/\ IsRead
     /\ OnServer11
     /\ last.fault \in Unclassifiable \cup {"framing"}
     /\ last.wfailed) =>
        IsInvalid(NC_SESSION_TERM_OTHER)

(***************************************************************************)
(* C7: a complete framed body that does not parse, whose root has no       *)
(* namespace or is none of the four known elements makes nc_read_msg       *)
(* return NC_MSG_ERROR and leaves the session Invalid with term_reason     *)
(* Other, on either side and with either version.                          *)
(***************************************************************************)
C7_UnclassifiableInvalidates ==
    (IsRead /\ last.fault \in Unclassifiable) =>
        /\ last.type = NC_MSG_ERROR
        /\ IsInvalid(NC_SESSION_TERM_OTHER)

(***************************************************************************)
(* C8: on a client-side session, and on a server-side session of version   *)
(* 1.0, a framing fault or an unclassifiable message makes nc_read_msg     *)
(* return NC_MSG_ERROR and writes no byte.                                 *)
(***************************************************************************)
C8_NoReplyElsewhere ==
    (/\ IsRead
     /\ last.pre.side = NC_CLIENT \/ last.pre.version = NC_VERSION_10
     /\ last.fault \in Unclassifiable \cup {"framing"}) =>
        /\ last.type = NC_MSG_ERROR
        /\ last.out = <<>>

\* a client of version 1.1 received an end of chunks before any chunk
C8_Witness ==
    /\ last.op = "nc_read_msg"
    /\ last.pre.side = NC_CLIENT
    /\ last.pre.version = NC_VERSION_11
    /\ last.pre_inq = EarlyEnd
    /\ last.fault = "framing"

(***************************************************************************)
(* C9: when nc_write_msg returns from writing a message it accepts, either *)
(* the whole framed message, terminator included, is on the wire, or the   *)
(* session is Invalid; when it returns 0 the whole message is on the wire. *)
(* The whole framed message is what the call writes on a transport that    *)
(* takes every byte.                                                       *)
(***************************************************************************)
Accepted(s, m) ==
    /\ s.status \in {NC_STATUS_STARTING, NC_STATUS_RUNNING}
    /\ m.type \in {NC_MSG_RPC, NC_MSG_REPLY, NC_MSG_NOTIF, NC_MSG_HELLO}
    /\ m.type = NC_MSG_HELLO => s.version = NC_VERSION_10
    /\ m.type = NC_MSG_REPLY => m.reply.type \in {NC_RPL_OK, NC_RPL_DATA, NC_RPL_ERROR}

WholeMessage == nc_write_msg(World(last.pre, <<>>, <<>>), last.msg).w.out

WholeOrInvalid(whole) ==
    /\ last.out = whole \/ session.status = NC_STATUS_INVALID
    /\ last.ret = 0 => last.out = whole

C9_WholeOrInvalid == (IsWrite /\ Accepted(last.pre, last.msg)) => WholeOrInvalid(WholeMessage)

(***************************************************************************)
(* C10: once a write on the transport has failed during nc_write_msg, no   *)
(* later byte of the message is written, and the session is Invalid with   *)
(* a term_reason.                                                          *)
(***************************************************************************)
C10_FailedWriteAborts ==
    (IsWrite /\ last.wfailed) =>
        /\ last.late = 0
        /\ session.status = NC_STATUS_INVALID
        /\ session.term_reason # NC_SESSION_TERM_NONE

(***************************************************************************)
(* The framing layers face to face: a caller appends the pieces of message *)
(* bodies through nc_write_clb and ends each body with a NULL buffer; the  *)
(* bytes that reach the transport are the input of a session of the same   *)
(* version, whose framing layer (io.c:278-338) reads them back.  In this   *)
(* specification last holds the bodies sent and the results of the reads.  *)
(***************************************************************************)
\* the bodies a session has in flight at most
MaxBodies == 2

\* the bytes that one nc_write_clb call adds to the body
AppendedBytes(c) ==
    IF c.xmlcontent # 0 THEN Escape(SubSeq(c.buf, 1, c.count)) ELSE SubSeq(c.buf, 1, c.count)

\* the body that a run of nc_write_clb calls makes
BodyOf(calls) == Flatten([i \in 1..Len(calls) |-> AppendedBytes(calls[i])])

\* s holds t somewhere
Contains(s, t) == \E i \in 1..(Len(s) - Len(t) + 1) : StartsAt(s, i, t)

\* the runs of appends of one body
Appends ==
    {\* a body of one byte
     <<Lit(<<"a">>)>>,
     <<Lit(DocRpc)>>,
     \* markup and content
     <<Lit(StartTag(<<"a">>, <<>>)), Content(<<"b", " ", "<", " ", "c", " ", "&", " ", "d">>),
       Lit(EndTag(<<"a">>))>>,
     \* bytes that look like chunk framing
     <<Lit(T_end_of_chunks \o T_chunk_intro \o <<"5">> \o T_newline)>>,
     \* the end of a CDATA section at the end of the body, and the sentinel cut short
     <<Lit(<<"a", "]", "]", ">">>)>>,
     <<Lit(<<"]", "]", ">", "]", "]">>)>>,
     \* the direct path, between two staged pieces
     <<Lit(<<"x">>), Lit(BigElement(WRITE_BUFSIZE + 1)), Lit(<<"y">>)>>,
     \* a staged piece that fills the staging area, and one byte more
     <<Lit(Filler(WRITE_BUFSIZE)), Lit(<<"z">>)>>,
     \* content that meets the end of the staging area with an escape
     <<Content(Filler(WRITE_BUFSIZE - 7) \o <<"&", "<", ">">>)>>}

FramingInit ==
    /\ session \in [status : {NC_STATUS_RUNNING}, term_reason : {NC_SESSION_TERM_NONE},
                    side : {NC_CLIENT}, version : {NC_VERSION_10, NC_VERSION_11},
                    ti_type : {NC_TI_FD}, msgid : {0}]
    /\ inq = <<>>
    /\ last = [sent |-> <<>>, got |-> <<>>]

\* a body is appended piece by piece and ended; the transport takes every byte
FramedWrite ==
    /\ Len(last.sent) < MaxBodies
    /\ \E calls \in Appends :
          /\ inq' = inq \o nc_write_clb(nc_write_calls(World(session, <<>>, <<>>), calls),
                                        NULL, 0, 0).w.out
          /\ last' = [last EXCEPT !.sent = Append(@, BodyOf(calls))]
    /\ UNCHANGED session

\* the framing layer of nc_read_msg reads one body
FramedReadResult(f) ==
    /\ session' = SessionOf(f.w)
    /\ inq' = f.w.inq
    /\ last' = [last EXCEPT !.got = Append(@, [go |-> f.go, msg |-> f.msg])]

FramedRead ==
    /\ Len(last.got) < Len(last.sent)
    /\ FramedReadResult(nc_read_msg_frame(World(session, inq, <<>>)))

FramingNext == FramedWrite \/ FramedRead

SpecFraming == FramingInit /\ [][FramingNext]_vars

(***************************************************************************)
(* C11: for NETCONF 1.0 and 1.1 and every sequence of non-empty bodies     *)
(* without the 1.0 sentinel appended through the framed writer, the framed *)
(* reader, fed the bytes written, yields the same bodies in the same       *)
(* order, one body per read, with no byte left over.  As stated it fails:  *)
(* see C11_RoundTripUnambiguous.                                           *)
(***************************************************************************)
\* the reads so far gave the bodies sent, and nothing is left after the last
ReadBack ==
    /\ \A i \in 1..Len(last.got) : last.got[i] = [go |-> "ok", msg |-> last.sent[i]]
    /\ Len(last.got) = Len(last.sent) => inq = <<>>
    /\ session.status = NC_STATUS_RUNNING

C11_RoundTrip ==
    (\A i \in 1..Len(last.sent) :
        last.sent[i] # <<>> /\ ~Contains(last.sent[i], NC_VERSION_10_ENDTAG)) => ReadBack

(***************************************************************************)
(* C11, amended: the same for bodies that, on NETCONF 1.0, do not make the *)
(* sentinel appear early: the first place of the sentinel in the body      *)
(* followed by the sentinel is the end (a body that ends with "]]>" and    *)
(* the sentinel after it read as a shorter body and three bytes more).     *)
(***************************************************************************)
Unambiguous(body) ==
    /\ body # <<>>
    /\ session.version = NC_VERSION_10 =>
           \A i \in 1..Len(body) : ~StartsAt(Frame10(body), i, NC_VERSION_10_ENDTAG)

C11_RoundTripUnambiguous ==
    (\A i \in 1..Len(last.sent) : Unambiguous(last.sent[i])) => ReadBack

\* two bodies read back on NETCONF 1.1, the second one in more than one chunk
C11_Witness ==
    /\ session.version = NC_VERSION_11
    /\ Len(last.got) = 2
    /\ Len(last.sent[2]) > WRITE_BUFSIZE
    /\ last.got[2].msg = last.sent[2]
    /\ inq = <<>>

(***************************************************************************)
(* A message on its way: one side writes it with nc_write_msg on a         *)
(* transport that takes every byte, and its peer, a session of the other   *)
(* side and the same version, reads the bytes with nc_read_msg.  In this   *)
(* specification session is the writer, inq the bytes on their way and     *)
(* last the message written and what the peer read.                        *)
(***************************************************************************)
Peer(s) == [s EXCEPT !.side = IF @ = NC_CLIENT THEN NC_SERVER ELSE NC_CLIENT, !.msgid = 0]

EchoInit ==
    /\ session \in [status : {NC_STATUS_STARTING, NC_STATUS_RUNNING},
                    term_reason : {NC_SESSION_TERM_NONE},
                    side : {NC_CLIENT, NC_SERVER},
                    version : {NC_VERSION_10, NC_VERSION_11},
                    ti_type : {NC_TI_FD, NC_TI_LIBSSH, NC_TI_OPENSSL}, msgid : {0}]
    /\ inq = <<>>
    /\ last = [op |-> "idle"]

EchoWritten(m, r) ==
    /\ session' = SessionOf(r.w)
    /\ inq' = r.w.out
    /\ last' = [op |-> "nc_write_msg", msg |-> m, ret |-> r.ret]

EchoWrite ==
    /\ last.op = "idle"
    /\ \E m \in Messages : EchoWritten(m, nc_write_msg(World(session, <<>>, <<>>), m))

EchoReadResult(r) ==
    /\ inq' = r.w.inq
    /\ last' = [op |-> "nc_read_msg", msg |-> last.msg, ret |-> last.ret, type |-> r.ret,
                data |-> r.data, fault |-> r.fault, peer |-> SessionOf(r.w)]
    /\ UNCHANGED session

EchoRead ==
    /\ last.op = "nc_write_msg"
    /\ last.ret = 0
    /\ EchoReadResult(nc_read_msg(World(Peer(session), inq, <<>>)))

EchoNext == EchoWrite \/ EchoRead

SpecEcho == EchoInit /\ [][EchoNext]_vars

(***************************************************************************)
(* C12: a message of each of the four types (hello, rpc, rpc-reply,        *)
(* notification) that nc_write_msg wrote reads back through nc_read_msg as *)
(* a message of the same type with the same root element; a notification   *)
(* ends with the whole closing tag and reads back as NC_MSG_NOTIF.  The     *)
(* reply to a malformed message, which answers no rpc, is left to C5.      *)
(***************************************************************************)
\* the root element of a message of the type: its name and its namespace
RootOf(type) ==
    CASE type = NC_MSG_HELLO -> [name |-> S_hello, ns |-> NC_NS_BASE]
      [] type = NC_MSG_RPC -> [name |-> S_rpc, ns |-> NC_NS_BASE]
      [] type = NC_MSG_REPLY -> [name |-> S_rpc_reply, ns |-> NC_NS_BASE]
      [] type = NC_MSG_NOTIF -> [name |-> S_notification, ns |-> NC_NS_NOTIF]

C12_TypeRoundTrip ==
    (last.op = "nc_read_msg" /\ last.msg # MalformedReply) =>
        /\ last.type = last.msg.type
        /\ ~last.data.null
        /\ last.data.has_ns
        /\ [name |-> last.data.name, ns |-> last.data.ns] = RootOf(last.msg.type)
        /\ inq = <<>>

\* the same for the messages that are no notification and answer an rpc
C12_OthersRoundTrip ==
    (last.op = "nc_read_msg" /\ last.msg.type # NC_MSG_NOTIF /\ last.msg # MalformedReply) =>
        /\ last.type = last.msg.type
        /\ [name |-> last.data.name, ns |-> last.data.ns] = RootOf(last.msg.type)
        /\ inq = <<>>

(***************************************************************************)
(* C13: the rpcs that nc_write_msg is called to write on a session, one    *)
(* after another, carry consecutive message-ids: the call that finds the   *)
(* counter at n puts message-id n + 1 in its rpc, and no other, and leaves *)
(* the counter at n + 1, whether or not its writes fail; no other call     *)
(* moves the counter.                                                      *)
(***************************************************************************)
\* the attribute message-id with the value n, as nc_write_msg prints it
MessageIdAttr(n) == MsgText.message_id \o Dec(n) \o MsgText.quote

\* the call was one that writes an rpc: it passed the status gate
WroteRpc ==
    /\ IsWrite
    /\ last.msg.type = NC_MSG_RPC
    /\ last.pre.status \in {NC_STATUS_STARTING, NC_STATUS_RUNNING}

C13_MsgidSequence ==
    /\ WroteRpc =>
          /\ session.msgid = last.pre.msgid + 1
          /\ \A n \in 0..(MaxMsgid + 1) :
                 Contains(last.out, MessageIdAttr(n)) => n = last.pre.msgid + 1
          /\ ~last.wfailed => Contains(last.out, MessageIdAttr(last.pre.msgid + 1))
    /\ (~IsIdle /\ ~WroteRpc) => session.msgid = last.pre.msgid

\* the second rpc of a session, with a write that fails
C13_Witness ==
    /\ WroteRpc
    /\ last.pre.msgid = 1
    /\ last.wfailed
    /\ session.status = NC_STATUS_RUNNING
    /\ session.msgid = 2

(***************************************************************************)
(* Two threads send an rpc on one session.  nc_send_rpc takes the          *)
(* session's ti_lock with nc_timedlock, calls nc_write_msg and unlocks.    *)
(* nc_write_msg itself takes no lock; its struct wclb_arg is a local of    *)
(* the call (io.c:972), the counter and the transport belong to the        *)
(* session.  A thread moves by one statement of nc_write_msg at a time,    *)
(* and the other thread may move between any two of them.  The bytes on    *)
(* the transport are in inq; last holds the lock and the threads' locals.  *)
(***************************************************************************)
Threads == {1, 2}

\* no thread holds the lock
Unlocked == 0

\* a trylock that takes the lock although a thread holds it
nc_timedlock_no_exclusion(lock, t) == [lock |-> t, ret |-> 1]

\* nc_timedlock: 1 and the lock when it is free, 0 when the time is over first
nc_timedlock(lock, t) ==
    IF lock = Unlocked THEN [lock |-> t, ret |-> 1] ELSE [lock |-> lock, ret |-> 0]

\* what each thread sends
ThreadMessages ==
    [Threads ->
        {Rpc(<<EmptyTag(S_get, <<>>)>>),
         Rpc(<<BigElement(WRITE_BUFSIZE + 1)>>),
         Rpc(<<StartTag(<<"b">>, <<>>), Filler(WRITE_BUFSIZE - 24), EndTag(<<"b">>)>>)}]

ThreadsInit ==
    /\ session \in [status : {NC_STATUS_RUNNING}, term_reason : {NC_SESSION_TERM_NONE},
                    side : {NC_CLIENT}, version : {NC_VERSION_10, NC_VERSION_11},
                    ti_type : {NC_TI_FD}, msgid : {0, 1}]
    /\ inq = <<>>
    /\ last \in [lock : {Unlocked}, order : {<<>>}, base : {session.msgid},
                 msg : ThreadMessages, wplan : WPlans(NC_TI_FD), wfailed : {FALSE},
                 pc : {[t \in Threads |-> "nc_send_rpc"]},
                 id : {[t \in Threads |-> 0]},
                 calls : {[t \in Threads |-> <<>>]},
                 warg : {[t \in Threads |-> <<>>]},
                 c : {[t \in Threads |-> 0]},
                 sent : {[t \in Threads |-> <<>>]},
                 ret : {[t \in Threads |-> NC_MSG_NONE]}]

\* the session and the transport as thread t finds them
ThreadWorld(t) == [World(session, <<>>, last.wplan) EXCEPT !.warg = last.warg[t]]

\* thread t made a step of nc_write_msg that gave r and goes on at pc
ThreadStep(t, r, pc, c, calls) ==
    /\ session' = SessionOf(r.w)
    /\ inq' = inq \o r.w.out
    /\ last' = [last EXCEPT !.wplan = r.w.wplan,
                            !.wfailed = @ \/ r.w.wfailed,
                            !.warg[t] = r.w.warg,
                            !.sent[t] = @ \o r.w.out,
                            !.c[t] = c,
                            !.calls[t] = calls,
                            !.pc[t] = pc]

\* nc_send_rpc: the lock, or NC_MSG_WOULDBLOCK
ThreadLocked(t, l) ==
    /\ last' = IF l.ret = 1
               THEN [last EXCEPT !.lock = l.lock, !.order = Append(@, t),
                                 !.pc[t] = "nc_write_msg"]
               ELSE [last EXCEPT !.ret[t] = NC_MSG_WOULDBLOCK, !.pc[t] = "done"]
    /\ UNCHANGED <<session, inq>>

ThreadLock(t) ==
    /\ last.pc[t] = "nc_send_rpc"
    /\ ThreadLocked(t, nc_timedlock(last.lock, t))

\* io.c:979-999: the status gate, arg.len = 0 and the start tag with msgid + 1
ThreadEnter(t) ==
    /\ last.pc[t] = "nc_write_msg"
    /\ last' = IF ~StatusUsable(session.status)
               THEN [last EXCEPT !.pc[t] = "unlock"]
               ELSE [last EXCEPT !.warg[t] = <<>>,
                                 !.id[t] = session.msgid + 1,
                                 !.calls[t] = MsgCalls(ThreadWorld(t), last.msg[t]),
                                 !.pc[t] = "nc_write_clb"]
    /\ UNCHANGED <<session, inq>>

\* io.c:1001-1005: the next nc_write_clb call of the message
ThreadAppend(t) ==
    /\ last.pc[t] = "nc_write_clb"
    /\ LET c == Head(last.calls[t])
       IN  ThreadStep(t, nc_write_clb(ThreadWorld(t), c.buf, c.count, c.xmlcontent),
                      IF Len(last.calls[t]) = 1 THEN "msgid" ELSE "nc_write_clb",
                      0, Tail(last.calls[t]))

\* io.c:1007: session->msgid++
ThreadCount(t) ==
    /\ last.pc[t] = "msgid"
    /\ ThreadStep(t, WriteResult(NextMsgid(ThreadWorld(t), last.msg[t]), 0), "flush", 0, <<>>)

\* io.c:1129 and 719-727: nc_write_clb with a NULL buf flushes what is staged
ThreadFlush(t) ==
    /\ last.pc[t] = "flush"
    /\ LET r == nc_write_clb_flush(ThreadWorld(t))
       IN  ThreadStep(t, r, "endtag", r.ret, <<>>)

\* io.c:728-730: and writes the end tag
ThreadEndtag(t) ==
    /\ last.pc[t] = "endtag"
    /\ ThreadStep(t, nc_write_clb_after_flush(WriteResult(ThreadWorld(t), last.c[t]), NULL, 0, 0),
                  "unlock", 0, <<>>)

\* io.c:1131-1137 and nc_send_rpc: the result by the status, and the unlock
ThreadUnlock(t) ==
    /\ last.pc[t] = "unlock"
    /\ last' = [last EXCEPT !.lock = Unlocked,
                            !.ret[t] = IF StatusUsable(session.status)
                                       THEN NC_MSG_RPC ELSE NC_MSG_ERROR,
                            !.pc[t] = "done"]
    /\ UNCHANGED <<session, inq>>

ThreadsNext ==
    \E t \in Threads :
        \/ ThreadLock(t)
        \/ ThreadEnter(t)
        \/ ThreadAppend(t)
        \/ ThreadCount(t)
        \/ ThreadFlush(t)
        \/ ThreadEndtag(t)
        \/ ThreadUnlock(t)

SpecThreads == ThreadsInit /\ [][ThreadsNext]_vars

(***************************************************************************)
(* C14: two threads send an rpc at the same time on a session whose        *)
(* counter is N - 1: the message-ids they format are N and N + 1 in some   *)
(* order and never the same, no message-id is on the transport twice, and  *)
(* when both rpcs were written whole both ids are on the transport and the *)
(* counter is N + 1.                                                       *)
(***************************************************************************)
\* the thread formatted its start tag
Formatted(t) == last.id[t] # 0

\* the places of the transport's bytes where message-id n is
IdPlaces(n) == {i \in 1..Len(inq) : StartsAt(inq, i, MessageIdAttr(n))}

\* both threads have returned and each rpc was written whole
BothSent == \A t \in Threads : last.ret[t] = NC_MSG_RPC /\ ~last.wfailed

C14_ConcurrentMsgids ==
    /\ (\A t \in Threads : Formatted(t)) =>
           {last.id[t] : t \in Threads} = {last.base + 1, last.base + 2}
    /\ \A n \in 0..(last.base + 3) : Cardinality(IdPlaces(n)) <= 1
    /\ BothSent =>
           /\ session.msgid = last.base + 2
           /\ \A n \in {last.base + 1, last.base + 2} : Cardinality(IdPlaces(n)) = 1

\* both threads wrote, the second to take the lock after the first gave it back
C14_Witness ==
    /\ BothSent
    /\ last.base = 1
    /\ last.order = <<2, 1>>
    /\ last.id = [t \in Threads |-> IF t = 2 THEN 2 ELSE 3]
    /\ IdPlaces(2) # {} /\ IdPlaces(3) # {}

(***************************************************************************)
(* C15: the bytes that two threads write with nc_write_msg on one session  *)
(* do not interleave: at every moment the transport holds all the bytes of *)
(* the thread that wrote first and then those of the other, the other has  *)
(* written nothing before the first was through, and a message written     *)
(* whole is there with its end tag.                                        *)
(***************************************************************************)
\* thread t is through with nc_write_msg
Through(t) == last.pc[t] \in {"unlock", "done"}

\* the framed message of thread t, as one piece
FramedMessage(t) ==
    LET body == BodyOf(MsgCalls([msgid |-> last.id[t] - 1], last.msg[t]))
    IN  IF session.version = NC_VERSION_11 THEN body \o T_end_of_chunks
        ELSE body \o NC_VERSION_10_ENDTAG

\* the bytes of the chunk headers taken out of a NETCONF 1.1 message
Dechunked(t) ==
    IF session.version = NC_VERSION_10 THEN last.sent[t]
    ELSE LET r == nc_read_msg_v11(World(session, last.sent[t], <<>>), NC_READ_TIMEOUT, <<>>)
         IN  IF r.go = "ok" THEN r.msg \o T_end_of_chunks ELSE <<>>

C15_WritesLinearized ==
    /\ \E a, b \in Threads :
          /\ a # b
          /\ inq = last.sent[a] \o last.sent[b]
          /\ last.sent[b] # <<>> => Through(a)
    /\ \A t \in Threads :
          (last.ret[t] = NC_MSG_RPC /\ ~last.wfailed) => Dechunked(t) = FramedMessage(t)

\* both messages are on the transport, each flushed more than once
C15_Witness ==
    /\ BothSent
    /\ \A t \in Threads : Len(last.sent[t]) > WRITE_BUFSIZE
    /\ last.msg[1] # last.msg[2]
    /\ last.order = <<1, 2>>
    /\ inq = last.sent[1] \o last.sent[2]

(***************************************************************************)
(* C16: nc_read_msg tells the type of a body that parses by its root       *)
(* alone: hello, rpc and rpc-reply in the base namespace are NC_MSG_HELLO, *)
(* NC_MSG_RPC and NC_MSG_REPLY, notification in the notification namespace *)
(* is NC_MSG_NOTIF and comes with its tree; a root with any other pair of  *)
(* namespace and name, or with no namespace, is NC_MSG_ERROR with no tree. *)
(***************************************************************************)
MessageTypes == {NC_MSG_HELLO, NC_MSG_RPC, NC_MSG_REPLY, NC_MSG_NOTIF}

\* the types whose root the element e is
TypesOfRoot(e) ==
    {type \in MessageTypes :
        e.has_ns /\ RootOf(type) = [name |-> e.name, ns |-> e.ns]}

\* the call read the document d, framed for the session, and nothing else
ReadWhole(d) ==
    /\ IsRead
    /\ last.pre.status \in {NC_STATUS_STARTING, NC_STATUS_RUNNING}
    /\ last.pre_inq = (IF last.pre.version = NC_VERSION_10 THEN Frame10(d) ELSE Frame11(d))
    /\ inq = <<>>

C16_ClassifiedByRoot ==
    \A d \in Docs :
        (ReadWhole(d) /\ ~lyxml_parse_mem(d).null) =>
            IF TypesOfRoot(lyxml_parse_mem(d)) = {}
            THEN last.type = NC_MSG_ERROR /\ last.data = NULL_ELEM
            ELSE /\ TypesOfRoot(lyxml_parse_mem(d)) = {last.type}
                 /\ last.data = lyxml_parse_mem(d)

\* a known name in the wrong namespace was read and refused
C16_Witness ==
    /\ ReadWhole(DocNotifInBaseNamespace)
    /\ last.op = "nc_read_msg"
    /\ last.type = NC_MSG_ERROR
    /\ last.fault = "root"

(***************************************************************************)
(* C17: nc_read_msg and nc_read_msg_poll never return NC_MSG_NONE; they    *)
(* return a message type only with a tree, and only when the call took one *)
(* whole framed message, the one the tree was parsed from, off the input;  *)
(* with NC_MSG_ERROR and NC_MSG_WOULDBLOCK the tree is NULL; and           *)
(* NC_MSG_WOULDBLOCK comes only from nc_read_msg_poll whose poll timed     *)
(* out.                                                                    *)
(***************************************************************************)
\* what the call took off the input, the would-blocks and interrupts left out
Consumed ==
    SelectSeq(SubSeq(last.pre_inq, 1, Len(last.pre_inq) - Len(inq)), IsByte)

\* the ways the document d comes framed on a session of the version, whole;
\* the chunks with loose headers that the reader takes are among them
FramesOf(d, version) ==
    IF version = NC_VERSION_10 THEN {Frame10(d)}
    ELSE {Frame11(d)} \cup (IF Len(d) > SplitAt THEN {Frame11Split(d)} ELSE {})
         \cup (IF d = DocRpc THEN LooseFrames ELSE {})

\* the answer p of the poll is a timeout
PollTimedOut(p) ==
    IF last.pre.ti_type = NC_TI_LIBSSH THEN p.ssh = 0 ELSE p.ret = 0 /\ p.revents = {}

TimedOutPoll ==
    /\ last.op = "nc_read_msg_poll"
    /\ last.pre.status \in {NC_STATUS_STARTING, NC_STATUS_RUNNING}
    /\ last.pre.ti_type # NC_TI_NONE
    /\ PollTimedOut(last.msg.poll)

C18_TimeoutLeavesSession ==
    TimedOutPoll =>
        /\ last.type = NC_MSG_WOULDBLOCK
        /\ session = last.pre
        /\ inq = last.pre_inq
        /\ last.out = <<>>

\* the poll timed out just before a message came
C18_Witness ==
    /\ TimedOutPoll
    /\ last.type = NC_MSG_WOULDBLOCK
    /\ session.status = NC_STATUS_RUNNING
    /\ inq = Frame11(DocRpc)

(***************************************************************************)
(* The waits of nc_read, one turn of its do-while loop at a time.          *)
(* nc_read_msg starts with a budget of NC_READ_TIMEOUT seconds and hands   *)
(* it to every nc_read_until and nc_read_chunk call of the message;        *)
(* sleep_count is a local of nc_read (io.c:42) and starts at 0 in every    *)
(* call.  nc_read_until calls nc_read for one byte at a time (io.c:232),   *)
(* nc_read_chunk calls it once for the whole chunk (io.c:179).  Here       *)
(* nc_read_msg makes the first of those calls: inq holds the bytes that    *)
(* the peer has still to send, and the peer sends the next byte right      *)
(* after the last one or just before the reader has waited a full second.  *)
(* last holds the locals: read_timeout, sleep_count, readd, the bytes that *)
(* nc_read_until has, and slept, the sleeps since nc_read_msg was called.  *)
(***************************************************************************)
\* a sleep that never adds up to a second
nc_read_slept_no_seconds(read_timeout, sleep_count) ==
    [read_timeout |-> read_timeout, sleep_count |-> (sleep_count + 1) % SleepsPerSecond]

\* io.c:138-145: usleep, ++sleep_count, and a second off the budget when
\* SleepsPerSecond sleeps are counted
nc_read_slept(read_timeout, sleep_count) ==
    IF sleep_count + 1 = SleepsPerSecond
    THEN [read_timeout |-> read_timeout - 1, sleep_count |-> 0]
    ELSE [read_timeout |-> read_timeout, sleep_count |-> sleep_count + 1]

\* the first reads of a message: nc_read_until for the start of a chunk
\* header and for the line after it, nc_read_chunk for a chunk of two bytes
WaitCalls ==
    {[kind |-> "nc_read_until", endtag |-> T_chunk_intro, count |-> 1, input |-> T_chunk_intro],
     [kind |-> "nc_read_until", endtag |-> T_newline, count |-> 1,
      input |-> <<"7">> \o T_newline],
     [kind |-> "nc_read_chunk", endtag |-> <<>>, count |-> 2, input |-> <<"<", "a">>]}

WaitInit ==
    /\ session \in [status : {NC_STATUS_RUNNING}, term_reason : {NC_SESSION_TERM_NONE},
                    side : {NC_SERVER}, version : {NC_VERSION_11},
                    ti_type : {NC_TI_FD}, msgid : {0}]
    /\ \E c \in WaitCalls :
          /\ inq = c.input
          /\ last = [call |-> c, read_timeout |-> NC_READ_TIMEOUT, sleep_count |-> 0,
                     readd |-> 0, chunk |-> <<>>, slept |-> 0, pc |-> "nc_read",
                     type |-> NC_MSG_NONE]

\* slept counts no further than this: the budget and one second a byte
MaxSlept == (NC_READ_TIMEOUT + 2) * SleepsPerSecond

\* the peer lets the next byte go
ByteComes == inq # <<>> /\ last.sleep_count \in {0, SleepsPerSecond - 1}

\* io.c:137-152: nothing read; t is the budget and the count after the sleep
WaitSlept(t) ==
    /\ session' = IF t.read_timeout = 0 THEN Invalidate(session, NC_SESSION_TERM_OTHER)
                  ELSE session
    /\ last' = [last EXCEPT !.read_timeout = t.read_timeout,
                            !.sleep_count = t.sleep_count,
                            !.slept = IF @ < MaxSlept THEN @ + 1 ELSE @,
                            !.pc = IF t.read_timeout = 0 THEN "nc_read failed" ELSE "nc_read"]
    /\ UNCHANGED inq

WaitWouldBlock ==
    /\ last.pc = "nc_read"
    /\ WaitSlept(nc_read_slept(last.read_timeout, last.sleep_count))

\* io.c:154-158 and 232-248: a byte is read; nc_read goes on when it has not
\* its count, nc_read_until calls nc_read again when it has not the endtag
WaitByte ==
    /\ last.pc = "nc_read"
    /\ ByteComes
    /\ inq' = Tail(inq)
    /\ last' =
          IF last.readd + 1 < last.call.count
          THEN [last EXCEPT !.readd = @ + 1]
          ELSE IF last.call.kind = "nc_read_until"
                  /\ ~EndsWith(Append(last.chunk, Head(inq)), last.call.endtag)
          THEN [last EXCEPT !.chunk = Append(@, Head(inq)), !.readd = 0, !.sleep_count = 0]
          ELSE [last EXCEPT !.chunk = Append(@, Head(inq)), !.readd = @ + 1, !.pc = "read"]
    /\ UNCHANGED session

\* io.c:233-236, 181-184 and 392-397: nc_read gave -1, and so does its caller;
\* nc_read_msg goes to the label error and returns NC_MSG_ERROR
WaitFailed ==
    /\ last.pc = "nc_read failed"
    /\ last' = [last EXCEPT !.pc = "returned", !.type = NC_MSG_ERROR]
    /\ UNCHANGED <<session, inq>>

WaitNext == WaitWouldBlock \/ WaitByte \/ WaitFailed

SpecWait == WaitInit /\ [][WaitNext]_vars

\* the reader runs: a turn of the loop that can be made is made
SpecWaitFair == WaitInit /\ [][WaitNext]_vars /\ WF_vars(WaitNext)

(***************************************************************************)
(* C19: the budget of a message counts the would-block sleeps of the whole *)
(* message: when the sleeps since nc_read_msg was called come to           *)
(* NC_READ_TIMEOUT seconds, wherever the bytes came between them, the read *)
(* has failed with the session Invalid and term_reason Other.              *)
(***************************************************************************)
C19_BudgetCumulative ==
    last.slept >= NC_READ_TIMEOUT * SleepsPerSecond =>
        /\ last.pc \in {"nc_read failed", "returned"}
        /\ IsInvalid(NC_SESSION_TERM_OTHER)

\* the same where one nc_read call reads all the bytes, as in nc_read_chunk
C19_BudgetOfOneRead ==
    (last.call.kind = "nc_read_chunk" /\ last.slept >= NC_READ_TIMEOUT * SleepsPerSecond) =>
        /\ last.pc \in {"nc_read failed", "returned"}
        /\ IsInvalid(NC_SESSION_TERM_OTHER)

(***************************************************************************)
(* C20: when the transport reports would-block from some moment on, while  *)
(* nc_read_msg waits for a byte, nc_read_msg returns NC_MSG_ERROR in the   *)
(* end, with the session Invalid and term_reason Other: every read either  *)
(* gets its bytes or ends so.                                              *)
(***************************************************************************)
\* nc_read_msg returned on the timeout
TimedOut ==
    /\ last.pc = "returned"
    /\ last.type = NC_MSG_ERROR
    /\ IsInvalid(NC_SESSION_TERM_OTHER)

C20_BlockedReadTimesOut == <>(last.pc = "read" \/ TimedOut)

\* the first byte came, and then none
C20_Witness ==
    /\ TimedOut
    /\ last.call.kind = "nc_read_until"
    /\ Len(last.chunk) = 1
    /\ inq # <<>>

(***************************************************************************)
(* The loops of nc_read and nc_write against a transport that stalls.      *)
(* One call is under way: the first nc_read_until of nc_read_msg, or an    *)
(* nc_write of count bytes that nc_write_msg makes.  Besides would-block   *)
(* the transport may interrupt the read() with a signal (EINTR on a file   *)
(* descriptor), the peer may send a byte that is no part of the endtag,    *)
(* and a write may take no byte without an error (write() gives 0, or      *)
(* SSL_write wants to write again).  clock is the parity of the usleep     *)
(* calls of those turns, which change nothing else.                        *)
(***************************************************************************)
\* the bytes of the nc_write call under way
StallCount == 2

StallInit ==
    /\ session \in [status : {NC_STATUS_RUNNING}, term_reason : {NC_SESSION_TERM_NONE},
                    side : {NC_SERVER}, version : {NC_VERSION_11},
                    ti_type : {NC_TI_FD, NC_TI_OPENSSL}, msgid : {0}]
    /\ \E c \in {w \in WaitCalls : w.kind = "nc_read_until"}, pc \in {"nc_read", "nc_write"} :
          /\ inq = (IF pc = "nc_read" THEN c.input ELSE <<>>)
          /\ last = [call |-> c, read_timeout |-> NC_READ_TIMEOUT, sleep_count |-> 0,
                     readd |-> 0, chunk |-> <<>>, slept |-> 0, pc |-> pc,
                     type |-> NC_MSG_NONE, clock |-> 0, written |-> 0, ret |-> 0]

\* io.c:137-152: nothing read, on the budget t after the sleep
StallSlept(t) ==
    /\ session' = IF t.read_timeout = 0 THEN Invalidate(session, NC_SESSION_TERM_OTHER)
                  ELSE session
    /\ last' = [last EXCEPT !.read_timeout = t.read_timeout,
                            !.sleep_count = t.sleep_count,
                            !.clock = 1 - @,
                            !.pc = IF t.read_timeout = 0 THEN "nc_read failed" ELSE "nc_read"]
    /\ UNCHANGED inq

StallWouldBlock ==
    /\ last.pc = "nc_read"
    /\ StallSlept(nc_read_slept(last.read_timeout, last.sleep_count))

\* io.c:67-69: read() was interrupted: usleep and continue, to the test
\* readd < count, which holds
StallInterrupted ==
    /\ last.pc = "nc_read"
    /\ session.ti_type = NC_TI_FD
    /\ last.readd < last.call.count
    /\ last' = [last EXCEPT !.clock = 1 - @]
    /\ UNCHANGED <<session, inq>>

\* io.c:232-248: the peer sends a byte that is no part of the endtag: nc_read
\* gives 1, the endtag is not there, and nc_read is called again.  Of chunk
\* only the last bytes are looked at: those before this byte are left out.
StallByte ==
    /\ last.pc = "nc_read"
    /\ last' = [last EXCEPT !.chunk = <<"x">>, !.readd = 0, !.sleep_count = 0]
    /\ UNCHANGED <<session, inq>>

\* io.c:649-655: the write took c bytes, 0 or more
StallWrote(c) ==
    /\ last' = [last EXCEPT !.written = @ + c,
                            !.clock = IF c = 0 THEN 1 - @ ELSE @,
                            !.ret = IF last.written + c < StallCount THEN @ ELSE StallCount,
                            !.pc = IF last.written + c < StallCount THEN "nc_write"
                                   ELSE "returned"]
    /\ UNCHANGED <<session, inq>>

StallWrite ==
    /\ last.pc = "nc_write"
    /\ \E c \in 0..(StallCount - last.written) : StallWrote(c)

\* io.c:594-598: the write failed
StallWriteError ==
    /\ last.pc = "nc_write"
    /\ last' = [last EXCEPT !.ret = -1, !.pc = "returned"]
    /\ UNCHANGED <<session, inq>>

StallNext ==
    \/ StallWouldBlock
    \/ StallInterrupted
    \/ StallByte
    \/ WaitByte
    \/ WaitFailed
    \/ StallWrite
    \/ StallWriteError

\* the thread in the loop runs: a turn that can be made is made
SpecStallFair == StallInit /\ [][StallNext]_vars /\ WF_vars(StallNext)

(***************************************************************************)
(* C21: no call waits without bound: whatever the transport does, the      *)
(* nc_read and nc_write calls of nc_read_msg and nc_write_msg come to an   *)
(* end, and the entry point returns.                                       *)
(***************************************************************************)
\* the call under way is over
CallOver == last.pc \in {"read", "returned"}

C21_EveryCallReturns == <>CallOver

(***************************************************************************)
(* C22: a read that meets the end of the peer's stream (the read returns   *)
(* EOF, the poll reports a hang-up) returns NC_MSG_ERROR and leaves the    *)
(* session Invalid with term_reason Dropped; one that meets an error of    *)
(* the transport (read error, poll failure, error flag of the poll without *)
(* a hang-up) leaves it Invalid with term_reason Other.                    *)
(***************************************************************************)
\* the call was a read on a session that can be read
ReadOnUsable ==
    /\ IsRead
    /\ last.pre.status \in {NC_STATUS_STARTING, NC_STATUS_RUNNING}
    /\ last.pre.ti_type # NC_TI_NONE

\* the last thing that the call took off the input
LastTaken ==
    IF Len(inq) < Len(last.pre_inq) THEN last.pre_inq[Len(last.pre_inq) - Len(inq)]
    ELSE "nothing"

\* what the poll of the call told: "closed", "error", or "fine"
PollTold ==
    IF last.op # "nc_read_msg_poll" THEN "fine"
    ELSE IF last.pre.ti_type = NC_TI_LIBSSH
    THEN (CASE last.msg.poll.ssh = SSH_EOF -> "closed"
            [] last.msg.poll.ssh = SSH_ERROR -> "error"
            [] OTHER -> "fine")
    ELSE (CASE last.msg.poll.ret < 0 -> "error"
            [] POLLHUP \in last.msg.poll.revents -> "closed"
            [] POLLERR \in last.msg.poll.revents -> "error"
            [] OTHER -> "fine")

\* the peer closed the stream, or the transport failed, under the call
PeerClosed == PollTold = "closed" \/ (PollTold = "fine" /\ LastTaken = EOF)

TransportFailed == PollTold = "error" \/ (PollTold = "fine" /\ LastTaken = ERR)

C22_FatalReceive ==
    ReadOnUsable =>
        /\ PeerClosed => last.type = NC_MSG_ERROR /\ IsInvalid(NC_SESSION_TERM_DROPPED)
        /\ TransportFailed => last.type = NC_MSG_ERROR /\ IsInvalid(NC_SESSION_TERM_OTHER)
        /\ PollTold # "fine" => inq = last.pre_inq

\* the end of the stream in the middle of a chunk
C22_Witness ==
    /\ ReadOnUsable
    /\ last.pre.version = NC_VERSION_11
    /\ last.pre_inq = SubSeq(Frame11(DocRpc), 1, SplitAt + 4) \o <<EOF>>
    /\ LastTaken = EOF
    /\ last.type = NC_MSG_ERROR
    /\ IsInvalid(NC_SESSION_TERM_DROPPED)

(***************************************************************************)
(* C23: nc_write checks before each write on the transport that the peer   *)
(* is there.  When the check before the k-th write of a message (a chunk   *)
(* header, a payload or the end tag) finds the peer gone, the transport    *)
(* holds what the k - 1 writes before it wrote and no byte more, the       *)
(* session is Invalid with term_reason Dropped and nc_write_msg returns    *)
(* -1.                                                                     *)
(***************************************************************************)
\* the check before the k-th nc_write finds the peer gone, the ones before do not
HupAt(k) == last.plan = [i \in 1..k |-> IF i = k THEN W_HUP ELSE W_OK]

\* the body of the message written
WrittenBody == BodyOf(MsgCalls(last.pre, last.msg))

\* the writes on the transport of a message whose body is staged whole
StagedWrites ==
    IF last.pre.version = NC_VERSION_11
    THEN <<T_chunk_intro \o Dec(Len(WrittenBody)) \o T_newline, WrittenBody, T_end_of_chunks>>
    ELSE <<WrittenBody, NC_VERSION_10_ENDTAG>>

\* the message is written, and its body goes to the transport in one write
WritesStaged ==
    /\ IsWrite
    /\ Accepted(last.pre, last.msg)
    /\ WrittenBody # <<>>
    /\ Len(WrittenBody) <= WRITE_BUFSIZE

C23_NoWriteToGonePeer ==
    /\ (IsWrite /\ Accepted(last.pre, last.msg) /\ last.pre.ti_type # NC_TI_NONE /\ HupAt(1)) =>
           /\ last.out = <<>>
           /\ last.ret = -1
           /\ IsInvalid(NC_SESSION_TERM_DROPPED)
    /\ WritesStaged =>
           \A k \in 1..Len(StagedWrites) :
               (HupAt(k) /\ k <= MaxWrites) =>
                   /\ last.out = Flatten(SubSeq(StagedWrites, 1, k - 1))
                   /\ last.ret = -1
                   /\ IsInvalid(NC_SESSION_TERM_DROPPED)

\* the peer is gone when the end tag of a chunked message is due
C23_Witness ==
    /\ WritesStaged
    /\ last.pre.version = NC_VERSION_11
    /\ HupAt(3)
    /\ last.out = StagedWrites[1] \o StagedWrites[2]
    /\ IsInvalid(NC_SESSION_TERM_DROPPED)

(***************************************************************************)
(* C24: a hello is written in 1.0 framing.  Every hello that nc_write_msg  *)
(* reports as written (it returns 0) ends with "]]>]]>" on the transport   *)
(* and does not begin with a chunk header; a hello asked of a session of   *)
(* version 1.1 is refused: nc_write_msg returns -1, writes no byte and     *)
(* leaves the session as it was.                                           *)
(***************************************************************************)
HelloWritten ==
    /\ IsWrite
    /\ last.msg.type = NC_MSG_HELLO
    /\ last.pre.status \in {NC_STATUS_STARTING, NC_STATUS_RUNNING}

HelloRefused ==
    /\ last.ret = -1
    /\ last.out = <<>>
    /\ session = last.pre

C24_HelloIn10FramingOfWhole ==
    (HelloWritten /\ ~last.wfailed) =>
        /\ last.pre.version # NC_VERSION_10 => HelloRefused
        /\ last.pre.version = NC_VERSION_10 =>
               /\ last.ret = 0
               /\ last.out = WrittenBody \o NC_VERSION_10_ENDTAG

\* a hello refused on a 1.1 session, and one written on a 1.0 session
C24_RefusedWitness == HelloWritten /\ last.pre.version = NC_VERSION_11 /\ HelloRefused

C24_WrittenWitness ==
    /\ HelloWritten
    /\ last.pre.version = NC_VERSION_10
    /\ last.out = WrittenBody \o NC_VERSION_10_ENDTAG

(***************************************************************************)
(* C25: a hello that a server-side session writes holds a session-id       *)
(* element, and a hello that a client-side session writes holds none,      *)
(* whatever the arguments that nc_write_msg(NC_MSG_HELLO) takes.           *)
(***************************************************************************)
\* a hello that went whole to the transport
HelloSent == HelloWritten /\ last.pre.version = NC_VERSION_10 /\ ~last.wfailed /\ last.ret = 0

HasSessionId(out) == Contains(out, ErrorText.session_id_open)

C25_SessionIdBySide ==
    HelloSent => (HasSessionId(last.out) <=> last.pre.side = NC_SERVER)

\* what the code does: the element is there exactly when the caller gives a sid
C25_SessionIdByArgument ==
    HelloSent => (HasSessionId(last.out) <=> last.msg.sid # -1)

(***************************************************************************)
(* Specification of nc_session_is_connected alone: a session in any usable *)
(* or dropped state, with or without bytes of the peer waiting, is asked   *)
(* whether it is connected; the poll is interrupted up to MaxInterrupts    *)
(* times and then answers.                                                 *)
(***************************************************************************)
MaxInterrupts == 2

\* what the last poll may answer: a failure, nothing, or events; POLLIN only
\* with something to read
FinalPolls(input) ==
    {[ret |-> -1, revents |-> {}, errno |-> EBADF], [ret |-> 0, revents |-> {}, errno |-> ""]}
    \cup {[ret |-> 1, revents |-> r, errno |-> ""] :
             r \in {e \in (SUBSET {POLLIN, POLLHUP, POLLERR}) \ {{}} :
                       POLLIN \in e => input # <<>>}}

Interrupted == [ret |-> -1, revents |-> {}, errno |-> EINTR]

ConnectedPollSeqs(input) ==
    {[i \in 1..(k + 1) |-> IF i <= k THEN Interrupted ELSE p] :
        k \in 0..MaxInterrupts, p \in FinalPolls(input)}

ConnectedInit ==
    /\ session \in [status : {NC_STATUS_STARTING, NC_STATUS_RUNNING, NC_STATUS_INVALID},
                    term_reason : {NC_SESSION_TERM_NONE, NC_SESSION_TERM_DROPPED},
                    side : {NC_CLIENT, NC_SERVER}, version : {NC_VERSION_10, NC_VERSION_11},
                    ti_type : {NC_TI_NONE, NC_TI_FD, NC_TI_LIBSSH, NC_TI_OPENSSL},
                    msgid : {0}]
    /\ (session.status = NC_STATUS_INVALID) <=> (session.term_reason # NC_SESSION_TERM_NONE)
    /\ inq \in {<<>>, Frame10(DocRpc)}
    /\ last = [op |-> "idle"]

ConnectedCheck ==
    \E polls \in ConnectedPollSeqs(inq) :
        LET r == nc_session_is_connected(World(session, inq, <<>>), polls)
        IN  /\ session' = SessionOf(r.w)
            /\ inq' = r.w.inq
            /\ last' = [op |-> "nc_session_is_connected", pre |-> session, pre_inq |-> inq,
                        polls |-> polls, ret |-> r.ret]

ConnectedNext == ConnectedCheck

SpecConnected == ConnectedInit /\ [][ConnectedNext]_vars

(***************************************************************************)
(* C26: nc_session_is_connected changes nothing: the status, the           *)
(* term_reason and the input that waits are after the call what they were  *)
(* before.  It returns 0 exactly when the transport is NC_TI_NONE, the     *)
(* poll fails, or the poll reports POLLHUP or POLLERR, and 1 otherwise.    *)
(***************************************************************************)
Checked == last.op = "nc_session_is_connected"

AnsweringPoll == last.polls[Len(last.polls)]

PeerGone ==
    \/ last.pre.ti_type = NC_TI_NONE
    \/ AnsweringPoll.ret = -1
    \/ POLLHUP \in AnsweringPoll.revents
    \/ POLLERR \in AnsweringPoll.revents

C26_ConnectedCheck ==
    Checked =>
        /\ session = last.pre
        /\ inq = last.pre_inq
        /\ last.ret = (IF PeerGone THEN 0 ELSE 1)

\* an error reported with input waiting, after an interrupted poll: not connected
C26_Witness ==
    /\ Checked
    /\ session.status = NC_STATUS_RUNNING
    /\ last.pre.ti_type = NC_TI_FD
    /\ inq # <<>>
    /\ Len(last.polls) > 1
    /\ AnsweringPoll.revents = {POLLIN, POLLERR}
    /\ last.ret = 0

(***************************************************************************)
(* Specification of the escaping of content alone: a text of up to MaxText *)
(* bytes over the bytes that matter to the escaping (or the text of the    *)
(* error-message example) is escaped as nc_write_clb escapes content, the  *)
(* escaped form is decoded as a reader of XML decodes it, and the result   *)
(* is escaped again.                                                       *)
(***************************************************************************)
MaxText == 4

EscapeAlphabet == {"&", "<", ">", ";", "l", "t"}

ExampleText == <<"a", " ", "<", " ", "b", " ", "&", " ", "c", " ", ">", " ", "d">>

ExampleEscaped ==
    <<"a", " ", "&", "l", "t", ";", " ", "b", " ", "&", "a", "m", "p", ";", " ", "c", " ",
      "&", "g", "t", ";", " ", "d">>

Texts == {ExampleText} \cup UNION {[1..n -> EscapeAlphabet] : n \in 0..MaxText}

\* the text that an escaped form stands for: the three entities, from left to
\* right, give their byte back, every other byte is itself
RECURSIVE Decode(_)
Decode(e) ==
    IF e = <<>> THEN <<>>
    ELSE IF StartsAt(e, 1, <<"&", "a", "m", "p", ";">>)
    THEN <<"&">> \o Decode(SubSeq(e, 6, Len(e)))
    ELSE IF StartsAt(e, 1, <<"&", "l", "t", ";">>)
    THEN <<"<">> \o Decode(SubSeq(e, 5, Len(e)))
    ELSE IF StartsAt(e, 1, <<"&", "g", "t", ";">>)
    THEN <<">">> \o Decode(SubSeq(e, 5, Len(e)))
    ELSE <<Head(e)>> \o Decode(Tail(e))

EscapeInit ==
    /\ session \in [status : {NC_STATUS_RUNNING}, term_reason : {NC_SESSION_TERM_NONE},
                    side : {NC_SERVER}, version : {NC_VERSION_10},
                    ti_type : {NC_TI_FD}, msgid : {0}]
    /\ inq = <<>>
    /\ \E text \in Texts : last = [op |-> "text", text |-> text]

\* the text is written as content
EscapeText ==
    /\ last.op = "text"
    /\ last' = [op |-> "escaped", text |-> last.text, escaped |-> Escape(last.text)]
    /\ UNCHANGED <<session, inq>>

\* the peer decodes what was written
DecodeEscaped ==
    /\ last.op = "escaped"
    /\ last' = [op |-> "decoded", text |-> last.text, escaped |-> last.escaped,
                decoded |-> Decode(last.escaped)]
    /\ UNCHANGED <<session, inq>>

\* what the peer decoded is written as content again
EscapeDecoded ==
    /\ last.op = "decoded"
    /\ last' = [op |-> "escaped again", text |-> last.text, escaped |-> last.escaped,
                decoded |-> last.decoded, again |-> Escape(last.decoded)]
    /\ UNCHANGED <<session, inq>>

EscapeNext == EscapeText \/ DecodeEscaped \/ EscapeDecoded

SpecEscape == EscapeInit /\ [][EscapeNext]_vars

(***************************************************************************)
(* C27: for every text s, decoding the escaped form of s (&amp;, &lt; and  *)
(* &gt; back to &, < and >) gives s, and escaping that result gives the    *)
(* same escaped form; "a < b & c > d" is escaped as                        *)
(* "a &lt; b &amp; c &gt; d".                                              *)
(***************************************************************************)
C27_EscapeRoundTrip ==
    /\ last.op \in {"decoded", "escaped again"} => last.decoded = last.text
    /\ last.op = "escaped again" => last.again = last.escaped
    /\ (last.op # "text" /\ last.text = ExampleText) => last.escaped = ExampleEscaped

\* a text that reads as an entity is escaped, decoded to itself and escaped again
C27_Witness ==
    /\ last.op = "escaped again"
    /\ last.text = <<"&", "l", "t", ";">>
    /\ last.escaped = <<"&", "a", "m", "p", ";", "l", "t", ";">>
    /\ last.decoded = last.text
    /\ last.again = last.escaped

(***************************************************************************)
(* C28: on a NETCONF 1.1 session a chunk header of length 0, and an end of *)
(* chunks before any chunk, are framing faults: nc_read_msg returns        *)
(* NC_MSG_ERROR and gives no message.                                      *)
(***************************************************************************)
\* the call read the input from a usable 1.1 session
Read11(input) ==
    /\ ReadOnUsable
    /\ last.pre.version = NC_VERSION_11
    /\ last.pre_inq = input
    /\ Len(inq) < Len(last.pre_inq)

FramingFault ==
    /\ last.type = NC_MSG_ERROR
    /\ last.data = NULL_ELEM
    /\ last.fault = "framing"

C28_EmptyFramesFail ==
    \A input \in {ZeroChunk, EarlyEnd, LateZeroChunk} : Read11(input) => FramingFault

\* an end of chunks comes first, and the read fails
C28_Witness == Read11(EarlyEnd) /\ FramingFault /\ inq = <<>>

(***************************************************************************)
(* C29: the reader of NETCONF 1.1 takes a chunk only when its header is    *)
(* "\n#", an unsigned decimal number greater than 0 of ASCII digits and    *)
(* nothing else, and "\n".  A length with a sign, a space or a letter, and *)
(* bytes between the payload of a chunk and the next "\n#", are framing    *)
(* faults: nc_read_msg returns NC_MSG_ERROR.                               *)
(***************************************************************************)
C29_StrictChunkHeaders ==
    \A input \in LooseFrames : Read11(input) => FramingFault

\* what the code does with them: the message is read as if it were well-formed
C29_LooseFramesRead ==
    \A input \in LooseFrames :
        (Read11(input) /\ last.pre.side = NC_SERVER) =>
            /\ last.type = NC_MSG_RPC
            /\ last.data = lyxml_parse_mem(DocRpc)
            /\ inq = <<>>

(***************************************************************************)
(* Specification of the reader of chunks alone: the peer of a NETCONF 1.1  *)
(* session sends one message in up to MaxChunks well-formed chunks, with   *)
(* payloads that look like framing among them, alone or with the next      *)
(* message behind it; the framing layer of nc_read_msg reads one message.  *)
(***************************************************************************)
MaxChunks == 3

Payloads ==
    {<<"a">>, <<"<", "a", "/", ">">>, T_chunk_intro, T_end_of_chunks, NC_VERSION_10_ENDTAG,
     T_chunk_intro \o <<"2">> \o T_newline}

PayloadLists == UNION {[1..k -> Payloads] : k \in 1..MaxChunks}

\* what may follow the message on the input
Followers == {<<>>, Frame11(<<"b">>)}

ChunksInit ==
    /\ session \in [status : {NC_STATUS_RUNNING}, term_reason : {NC_SESSION_TERM_NONE},
                    side : {NC_CLIENT, NC_SERVER}, version : {NC_VERSION_11},
                    ti_type : {NC_TI_FD}, msgid : {0}]
    /\ inq = <<>>
    /\ last = [op |-> "idle"]

\* the peer sends the payloads, each in a chunk, and the end of chunks
ChunksArrive ==
    /\ last.op = "idle"
    /\ \E payloads \in PayloadLists, rest \in Followers :
          /\ inq' = Flatten([i \in 1..Len(payloads) |-> Chunk(payloads[i])])
                       \o T_end_of_chunks \o rest
          /\ last' = [op |-> "arrived", payloads |-> payloads, rest |-> rest]
    /\ UNCHANGED session

ChunksReadResult(f) ==
    /\ session' = SessionOf(f.w)
    /\ inq' = f.w.inq
    /\ last' = [op |-> "read", payloads |-> last.payloads, rest |-> last.rest,
                pre |-> session, go |-> f.go, msg |-> f.msg]

ChunksRead ==
    /\ last.op = "arrived"
    /\ ChunksReadResult(nc_read_msg_frame(World(session, inq, <<>>)))

\* the caller takes the message; what followed it is dropped with it
ChunksTaken ==
    /\ last.op = "read"
    /\ inq' = <<>>
    /\ last' = [op |-> "idle"]
    /\ UNCHANGED session

ChunksNext == ChunksArrive \/ ChunksRead \/ ChunksTaken

SpecChunks == ChunksInit /\ [][ChunksNext]_vars

(***************************************************************************)
(* C30: of a well-formed NETCONF 1.1 input of k >= 1 chunks and the end of *)
(* chunks, the body that nc_read_msg reads is the payloads of the chunks,  *)
(* one after the other as they came.  Each payload is taken by the length  *)
(* of its header: bytes of a payload that look like framing ("\n#",        *)
(* "\n##\n", "]]>]]>") are part of the body and do not end the message,    *)
(* and the read ends with the end of chunks.                               *)
(***************************************************************************)
C30_BodyIsPayloads ==
    last.op = "read" =>
        /\ last.go = "ok"
        /\ last.msg = Flatten(last.payloads)
        /\ inq = last.rest
        /\ session = last.pre

\* three payloads that look like framing, and a message behind them
C30_Witness ==
    /\ last.op = "read"
    /\ last.payloads = <<T_end_of_chunks, NC_VERSION_10_ENDTAG, T_chunk_intro \o <<"2">> \o T_newline>>
    /\ last.msg = T_end_of_chunks \o NC_VERSION_10_ENDTAG \o T_chunk_intro \o <<"2">> \o T_newline
    /\ last.rest # <<>>
    /\ inq = last.rest

(***************************************************************************)
(* Specification of the reader of NETCONF 1.0 alone: the peer sends a body *)
(* of up to MaxBody bytes, "]]>]]>" and what follows; the transport hands  *)
(* the bytes out in up to MaxSplits + 1 reads, split at any place (a       *)
(* would-block between two parts).  The framing layer of nc_read_msg reads *)
(* one message.                                                            *)
(***************************************************************************)
MaxBody == 3

MaxSplits == 2

BodyAlphabet == {"a", "]", ">"}

Bodies10 == UNION {[1..n -> BodyAlphabet] : n \in 0..MaxBody}

Followers10 == {<<>>, Frame10(<<"b">>)}

\* the places of up to MaxSplits splits in len bytes
SplitSets(len) == {c \in SUBSET (1..(len - 1)) : Cardinality(c) <= MaxSplits}

\* the bytes with a would-block after each place of cuts
SplitBy(bytes, cuts) ==
    Flatten([i \in 1..Len(bytes) |-> IF i \in cuts THEN <<bytes[i], EAGAIN>> ELSE <<bytes[i]>>])

SentinelInit ==
    /\ session \in [status : {NC_STATUS_RUNNING}, term_reason : {NC_SESSION_TERM_NONE},
                    side : {NC_CLIENT, NC_SERVER}, version : {NC_VERSION_10},
                    ti_type : {NC_TI_FD}, msgid : {0}]
    /\ inq = <<>>
    /\ last = [op |-> "idle"]

SentinelArrive ==
    /\ last.op = "idle"
    /\ \E body \in Bodies10, rest \in Followers10 :
          LET bytes == body \o NC_VERSION_10_ENDTAG \o rest
          IN  \E cuts \in SplitSets(Len(bytes)) :
                  /\ inq' = SplitBy(bytes, cuts)
                  /\ last' = [op |-> "arrived", bytes |-> bytes, cuts |-> cuts]
    /\ UNCHANGED session

SentinelReadResult(f) ==
    /\ session' = SessionOf(f.w)
    /\ inq' = f.w.inq
    /\ last' = [op |-> "read", bytes |-> last.bytes, cuts |-> last.cuts,
                pre |-> session, go |-> f.go, msg |-> f.msg]

SentinelRead ==
    /\ last.op = "arrived"
    /\ SentinelReadResult(nc_read_msg_frame(World(session, inq, <<>>)))

SentinelTaken ==
    /\ last.op = "read"
    /\ inq' = <<>>
    /\ last' = [op |-> "idle"]
    /\ UNCHANGED session

SentinelNext == SentinelArrive \/ SentinelRead \/ SentinelTaken

SpecSentinel == SentinelInit /\ [][SentinelNext]_vars

(***************************************************************************)
(* C31: in NETCONF 1.0 the body that the reader gives is the input up to   *)
(* the first "]]>]]>", without it, however the bytes are split over the    *)
(* reads of the transport ("]]>" and "]]>" in two reads included); the     *)
(* bytes after the sentinel stay on the input for the next message.        *)
(***************************************************************************)
\* where the first sentinel of the bytes sent begins
FirstSentinel == Min({i \in 1..Len(last.bytes) : StartsAt(last.bytes, i, NC_VERSION_10_ENDTAG)})

C31_BodyUpToSentinel ==
    last.op = "read" =>
        /\ last.go = "ok"
        /\ last.msg = SubSeq(last.bytes, 1, FirstSentinel - 1)
        /\ SelectSeq(inq, IsByte) = From(last.bytes, FirstSentinel + NC_VERSION_10_ENDTAG_LEN)
        /\ session = last.pre

\* the sentinel came as "]]>" and "]]>", with the next message behind it
C31_Witness ==
    /\ last.op = "read"
    /\ last.bytes = <<"a", "]", ">">> \o NC_VERSION_10_ENDTAG \o Frame10(<<"b">>)
    /\ last.cuts = {6}
    /\ last.msg = <<"a", "]", ">">>
    /\ inq = Frame10(<<"b">>)

(***************************************************************************)
(* C32: a message whose every write succeeded is on the wire, in NETCONF   *)
(* 1.1, as chunks, each "\n#", the length len >= 1 in decimal, "\n" and    *)
(* exactly len bytes of payload, and one "\n##\n" after the last chunk; in *)
(* NETCONF 1.0 as the payload and one "]]>]]>".                            *)
(***************************************************************************)
NotChunks == [ok |-> FALSE, payload |-> <<>>, chunks |-> 0, parts |-> <<>>]

\* the bytes b read as chunks and the end of chunks, and nothing else:
\* the payloads one after the other, and the number of chunks
RECURSIVE Unchunk(_)
Unchunk(b) ==
    IF StartsAt(b, 1, T_end_of_chunks)
    THEN [ok |-> Len(b) = Len(T_end_of_chunks), payload |-> <<>>, chunks |-> 0,
          parts |-> <<>>]
    ELSE IF ~StartsAt(b, 1, T_chunk_intro) THEN NotChunks
    ELSE
      LET d == Len(T_chunk_intro) + 1
          e == DigitsEnd(b, d)
          len == DecVal(SubSeq(b, d, e - 1))
      IN  IF e = d \/ b[d] = "0" \/ e > Len(b) THEN NotChunks
          ELSE IF b[e] # "\n" \/ e + len > Len(b) THEN NotChunks
          ELSE LET r == Unchunk(From(b, e + len + 1))
               IN  [ok |-> r.ok, payload |-> SubSeq(b, e + 1, e + len) \o r.payload,
                    chunks |-> r.chunks + 1,
                    parts |-> <<SubSeq(b, e + 1, e + len)>> \o r.parts]

\* every nc_write_clb call of the message returned without a failure
WroteAll == IsWrite /\ Accepted(last.pre, last.msg) /\ ~last.wfailed

C32_FramesOnTheWire ==
    WroteAll =>
        IF last.pre.version = NC_VERSION_11
        THEN /\ Unchunk(last.out).ok
             /\ Unchunk(last.out).chunks >= 1
             /\ Unchunk(last.out).payload = WrittenBody
        ELSE last.out = WrittenBody \o NC_VERSION_10_ENDTAG

\* a message of NETCONF 1.1 that went out in more than one chunk
C32_Witness ==
    /\ WroteAll
    /\ last.pre.version = NC_VERSION_11
    /\ Unchunk(last.out).ok
    /\ Unchunk(last.out).chunks > 1
    /\ EndsWith(last.out, T_end_of_chunks)

(***************************************************************************)
(* Specification of the writer alone: up to MaxAppends nc_write_clb calls  *)
(* of raw bytes and of content, of sizes around the size of the staging    *)
(* area, and the call that ends the message.  The state holds the staging  *)
(* area (warg) and the bytes on the wire (out) after each call.  The       *)
(* transport takes every byte, or fails as the plan of the run says.       *)
(***************************************************************************)
MaxAppends == 2

FillerOf(c, n) == [i \in 1..n |-> c]

WriterCalls ==
    {Lit(FillerOf("p", 1)),
     Lit(FillerOf("q", WRITE_BUFSIZE - 6)),
     Lit(FillerOf("r", WRITE_BUFSIZE - 5)),
     Lit(FillerOf("t", WRITE_BUFSIZE - 1)),
     Lit(FillerOf("u", WRITE_BUFSIZE)),
     Lit(FillerOf("v", WRITE_BUFSIZE + 1)),
     Content(<<"&">>),
     Content(<<"a", "<", "b", ">", "&", "c">>),
     Content(FillerOf("d", WRITE_BUFSIZE - 2) \o <<"&">>),
     Content(FillerOf("e", WRITE_BUFSIZE) \o <<">">>)}

WriterPlans == {<<>>, <<W_ERR>>, <<W_OK, W_OK, W_ERR>>}

WriterInit ==
    /\ session \in [status : {NC_STATUS_RUNNING}, term_reason : {NC_SESSION_TERM_NONE},
                    side : {NC_SERVER}, version : {NC_VERSION_10, NC_VERSION_11},
                    ti_type : {NC_TI_FD}, msgid : {0}]
    /\ inq = <<>>
    /\ \E plan \in WriterPlans :
          last = [op |-> "start", w |-> World(session, <<>>, plan), calls |-> <<>>]

WriterCalled(op, r, calls) ==
    /\ session' = SessionOf(r.w)
    /\ last' = [op |-> op, w |-> r.w, calls |-> calls, pre |-> last.w, ret |-> r.ret]
    /\ UNCHANGED inq

\* nc_write_clb(arg, buf, count, xmlcontent)
WriterAppend ==
    /\ last.op \in {"start", "append"}
    /\ Len(last.calls) < MaxAppends
    /\ \E c \in WriterCalls :
          WriterCalled("append", nc_write_clb(last.w, c.buf, c.count, c.xmlcontent),
                       Append(last.calls, c))

\* nc_write_clb(arg, NULL, 0, 0)
WriterEnd ==
    /\ last.op \in {"start", "append"}
    /\ WriterCalled("end", nc_write_clb(last.w, NULL, 0, 0), last.calls)

WriterNext == WriterAppend \/ WriterEnd

SpecWriter == WriterInit /\ [][WriterNext]_vars

(***************************************************************************)
(* C33: the writer keeps the order of the appends.  With a transport that  *)
(* takes every byte, after every call the payload bytes on the wire and    *)
(* the staged bytes, one after the other, are the appended bytes in the    *)
(* order of the calls.  A raw append larger than the staging area goes to  *)
(* the wire as one chunk, after the chunk of what was staged; a raw append *)
(* of at most WRITE_BUFSIZE bytes is staged.                               *)
(***************************************************************************)
\* the payload bytes on a wire that holds whole chunks (1.1) or bytes (1.0)
\* and, after the call that ends the message, the end tag
PayloadOn(out, version, ended) ==
    IF version = NC_VERSION_11
    THEN Unchunk(IF ended THEN out ELSE out \o T_end_of_chunks)
    ELSE [ok |-> ~ended \/ EndsWith(out, NC_VERSION_10_ENDTAG),
          payload |-> IF ended /\ EndsWith(out, NC_VERSION_10_ENDTAG)
                      THEN SubSeq(out, 1, Len(out) - NC_VERSION_10_ENDTAG_LEN)
                      ELSE out,
          chunks |-> 0, parts |-> <<>>]

\* the bytes as one write of nc_write_starttag_and_msg frames them
OnWire(bytes, version) ==
    IF bytes = <<>> THEN <<>>
    ELSE IF version = NC_VERSION_11 THEN Chunk(bytes)
    ELSE bytes

WriterCall == last.calls[Len(last.calls)]

\* a raw append went to the wire directly, after what was staged
WrittenDirectly ==
    /\ last.w.warg = <<>>
    /\ last.w.out = last.pre.out \o OnWire(last.pre.warg, last.w.version)
                       \o OnWire(WriterCall.buf, last.w.version)

\* a raw append was staged, after a flush of what was staged when it did not fit
Staged ==
    \/ /\ last.w.warg = last.pre.warg \o WriterCall.buf
       /\ last.w.out = last.pre.out
    \/ /\ Len(last.pre.warg) + WriterCall.count > WRITE_BUFSIZE
       /\ last.w.warg = WriterCall.buf
       /\ last.w.out = last.pre.out \o OnWire(last.pre.warg, last.w.version)

C33_AppendOrder ==
    (last.op # "start" /\ ~last.w.wfailed) =>
        /\ PayloadOn(last.w.out, last.w.version, last.op = "end").ok
        /\ PayloadOn(last.w.out, last.w.version, last.op = "end").payload \o last.w.warg
               = BodyOf(last.calls)
        /\ (last.op = "append" /\ WriterCall.xmlcontent = 0) =>
               IF WriterCall.count > WRITE_BUFSIZE THEN WrittenDirectly ELSE Staged
        /\ last.op = "end" => last.w.warg = <<>>

\* a raw append of WRITE_BUFSIZE + 1 bytes after a staged byte, on NETCONF 1.1
C33_Witness ==
    /\ last.op = "append"
    /\ ~last.w.wfailed
    /\ last.w.version = NC_VERSION_11
    /\ Len(last.calls) = 2
    /\ last.calls[1].count = 1
    /\ WriterCall.count = WRITE_BUFSIZE + 1
    /\ WriterCall.xmlcontent = 0
    /\ WrittenDirectly
    /\ Unchunk(last.w.out \o T_end_of_chunks).chunks = 2

(***************************************************************************)
(* C34: an append of content puts "&amp;", "&lt;" and "&gt;" for each "&", *)
(* "<" and ">" and every other byte as it is, whatever the staging area    *)
(* holds at the start of the append; no flush (chunk) ends in the middle   *)
(* of an escape.                                                           *)
(***************************************************************************)
\* at i of the bytes b an escape begins that b holds whole
EntityAt(b, i) ==
    \/ StartsAt(b, i, <<"&", "a", "m", "p", ";">>)
    \/ StartsAt(b, i, <<"&", "l", "t", ";">>)
    \/ StartsAt(b, i, <<"&", "g", "t", ";">>)

\* the bytes b hold no "<" and no ">", and "&" only at the head of an escape
\* that is whole in b
EscapedWhole(b) ==
    \A i \in 1..Len(b) :
        /\ b[i] \notin {"<", ">"}
        /\ b[i] = "&" => EntityAt(b, i)

\* the payload bytes on the wire and the staged ones after them
WriterBytes(w, ended) == PayloadOn(w.out, w.version, ended).payload \o w.warg

ContentAppended ==
    /\ last.op = "append"
    /\ ~last.w.wfailed
    /\ WriterCall.xmlcontent # 0

C34_ContentEscaped ==
    /\ ContentAppended =>
           LET before == WriterBytes(last.pre, FALSE)
               after == WriterBytes(last.w, FALSE)
               added == From(after, Len(before) + 1)
           IN  /\ SubSeq(after, 1, Len(before)) = before
               /\ added = Escape(WriterCall.buf)
               /\ EscapedWhole(added)
               /\ Len(added) = Len(WriterCall.buf)
                                 + 4 * Cardinality({i \in 1..WriterCall.count : WriterCall.buf[i] = "&"})
                                 + 3 * Cardinality({i \in 1..WriterCall.count :
                                                      WriterCall.buf[i] \in {"<", ">"}})
    /\ (last.op # "start" /\ ~last.w.wfailed /\ last.w.version = NC_VERSION_11) =>
           /\ \A k \in 1..Len(PayloadOn(last.w.out, last.w.version, last.op = "end").parts) :
                  EscapedWhole(PayloadOn(last.w.out, last.w.version, last.op = "end").parts[k])
           /\ EscapedWhole(last.w.warg)

\* an ampersand is appended when five bytes more do not fit: the staged bytes
\* go out as a chunk, and the whole escape is staged
C34_Witness ==
    /\ ContentAppended
    /\ last.w.version = NC_VERSION_11
    /\ Len(last.pre.warg) = WRITE_BUFSIZE - 5
    /\ WriterCall.buf = <<"&">>
    /\ last.w.out = Chunk(last.pre.warg)
    /\ last.w.warg = <<"&", "a", "m", "p", ";">>

(***************************************************************************)
(* C39: the staging area never holds more than WRITE_BUFSIZE (1024) bytes, *)
(* after any appends of raw bytes and of content of any sizes, those after *)
(* a flush that failed included.                                           *)
(***************************************************************************)
C39_StagingBounded == last.op # "start" => Len(last.w.warg) <= WRITE_BUFSIZE

\* a flush failed in the first append, and the second one fills the staging area
C39_Witness ==
    /\ last.op = "append"
    /\ Len(last.calls) = 2
    /\ last.calls[1].xmlcontent # 0
    /\ last.pre.wfailed
    /\ last.pre.warg = <<>>
    /\ Len(last.w.warg) = WRITE_BUFSIZE

(***************************************************************************)
(* Specification of nc_write_error alone: one struct nc_server_error, with *)
(* each optional field set or not and up to MaxEntries entries in each     *)
(* list of error-info, is written through the writer of a NETCONF 1.0      *)
(* session whose transport takes every byte.                               *)
(***************************************************************************)
MaxEntries == 2

ErrFragment == <<"<", "x", "/", ">">>

EntryLists(e) == {[i \in 1..n |-> e] : n \in 0..MaxEntries}

Errors ==
    [type : {"NC_ERR_TYPE_RPC", "NC_ERR_TYPE_APP"},
     tag : {"NC_ERR_BAD_ATTR"},
     apptag : {NULL, <<"t">>},
     path : {NULL, <<"/", "p">>},
     message : {NULL, <<"a", " ", "<", " ", "b">>},
     message_lang : {NULL, <<"e", "n">>},
     sid : {-1, 0},
     attr : EntryLists(<<"a">>),
     elem : {<<>>, [i \in 1..MaxEntries |-> <<"e">>]},
     ns : {<<>>, [i \in 1..MaxEntries |-> <<"n">>]},
     other : {<<>>, <<<<ErrFragment>>>>}]

ErrorInit ==
    /\ session \in [status : {NC_STATUS_RUNNING}, term_reason : {NC_SESSION_TERM_NONE},
                    side : {NC_SERVER}, version : {NC_VERSION_10},
                    ti_type : {NC_TI_FD}, msgid : {0}]
    /\ inq = <<>>
    /\ \E err \in Errors : last = [op |-> "idle", err |-> err]

\* nc_write_error(arg, err), and the end of the message
ErrorWrite ==
    /\ last.op = "idle"
    /\ last' = [op |-> "nc_write_error", err |-> last.err,
                out |-> nc_write_clb(nc_write_error(World(session, <<>>, <<>>), last.err),
                                     NULL, 0, 0).w.out]
    /\ UNCHANGED <<session, inq>>

ErrorNext == ErrorWrite

SpecError == ErrorInit /\ [][ErrorNext]_vars

(***************************************************************************)
(* C35: nc_write_error writes the children of rpc-error in the order       *)
(* error-type, error-tag, error-severity, error-app-tag, error-path,       *)
(* error-message, error-info, an optional one exactly when its field is    *)
(* set; error-info exactly when session-id is not negative or there is a   *)
(* bad-attribute, bad-element, bad-namespace or free-form entry, and in it *)
(* session-id, the bad-attribute entries, the bad-element entries, the     *)
(* bad-namespace entries and the free-form fragments, in this order.       *)
(***************************************************************************)
\* the places of the bytes t in out
Occ(out, t) == {i \in 1..Len(out) : out[i] = t[1] /\ StartsAt(out, i, t)}

HasInfo(err) ==
    err.sid > -1 \/ err.attr # <<>> \/ err.elem # <<>> \/ err.ns # <<>> \/ err.other # <<>>

Times(b) == IF b THEN 1 ELSE 0

\* the start tags in the order claimed, each with the number of times that
\* the error asks for it
ErrorChildren(err) ==
    << <<ErrorText.rpc_error_open, 1>>,
       <<ErrorText.error_type_open, 1>>,
       <<ErrorText.error_tag_open, 1>>,
       <<ErrorText.error_severity, 1>>,
       <<ErrorText.error_app_tag_open, Times(err.apptag # NULL)>>,
       <<ErrorText.error_path_open, Times(err.path # NULL)>>,
       <<ErrorText.error_message_open, Times(err.message # NULL)>>,
       <<ErrorText.error_info_open, Times(HasInfo(err))>>,
       <<ErrorText.session_id_open, Times(err.sid > -1)>>,
       <<ErrorText.bad_attribute_open, Len(err.attr)>>,
       <<ErrorText.bad_element_open, Len(err.elem)>>,
       <<ErrorText.bad_namespace_open, Len(err.ns)>>,
       <<ErrFragment, Len(err.other)>>,
       <<ErrorText.error_info_close, Times(HasInfo(err))>>,
       <<ErrorText.rpc_error_close, 1>> >>

C35_ErrorChildrenInOrder ==
    last.op = "nc_write_error" =>
        LET kids == ErrorChildren(last.err)
            occ == [k \in 1..Len(kids) |-> Occ(last.out, kids[k][1])]
        IN  /\ \A k \in 1..Len(kids) : Cardinality(occ[k]) = kids[k][2]
            /\ \A k \in 1..Len(kids), n \in 1..Len(kids) :
                   k < n => \A i \in occ[k], j \in occ[n] : i < j

\* an error with every field set and every list of error-info filled
C35_Witness ==
    /\ last.op = "nc_write_error"
    /\ last.err.apptag # NULL
    /\ last.err.path # NULL
    /\ last.err.message # NULL
    /\ last.err.sid = 0
    /\ Len(last.err.attr) = MaxEntries
    /\ Len(last.err.elem) = MaxEntries
    /\ Len(last.err.ns) = MaxEntries
    /\ last.err.other # <<>>
    /\ Cardinality(Occ(last.out, ErrorText.bad_element_open)) = MaxEntries
    /\ EndsWith(last.out, ErrorText.rpc_error_close \o NC_VERSION_10_ENDTAG)

(***************************************************************************)
(* C36: the termination reason is written once.  No step of a session that *)
(* is Invalid changes term_reason, and a call keeps the reason of its      *)
(* first fault: when the reply to a malformed message fails because the    *)
(* peer hung up, the session is left Invalid with the reason Dropped.      *)
(***************************************************************************)
\* the read answered a malformed message and the peer was gone at one of the
\* writes of the reply
ReplyMetHangup ==
    /\ IsRead
    /\ OnServer11
    /\ last.fault \in Unclassifiable \cup {"framing"}
    /\ last.wfailed
    /\ \E k \in 1..MaxWrites : HupAt(k)

C36_ReasonWrittenOnce ==
    /\ [](ReplyMetHangup => IsInvalid(NC_SESSION_TERM_DROPPED))
    /\ [][session.status = NC_STATUS_INVALID
             => session'.term_reason = session.term_reason]_vars

\* the hangup was met at the last write of the reply, after its chunk; and a
\* call was made on the session when it was Invalid with the reason Dropped
C36_Witness ==
    /\ ReplyMetHangup
    /\ HupAt(3)
    /\ last.out # <<>>
    /\ IsInvalid(NC_SESSION_TERM_DROPPED)

\* a later call on the session that was left so
C36_LaterCallWitness ==
    /\ IsWrite
    /\ last.pre.status = NC_STATUS_INVALID
    /\ last.pre.term_reason = NC_SESSION_TERM_DROPPED
    /\ last.pre.side = NC_SERVER
    /\ last.pre.version = NC_VERSION_11
    /\ last.ret = -1
    /\ IsInvalid(NC_SESSION_TERM_DROPPED)

(***************************************************************************)
(* C37: nc_read_msg writes to the transport only to answer a framing,      *)
(* parsing or classification fault on a server-side session of NETCONF     *)
(* 1.1, and then one malformed-message reply at most; a call that ends on  *)
(* a fault of the transport (end of stream, read error, time-out, failed   *)
(* allocation) writes no byte.                                             *)
(***************************************************************************)
\* what one reply holds once
RepliedOnceMarks ==
    {MsgText.rpc_reply_open, ErrorText.rpc_error_open, ErrTagText.NC_ERR_MALFORMED_MSG,
     MsgText.rpc_reply_close, T_end_of_chunks}

C37_ReplyOnlyToMalformed ==
    IsRead =>
        /\ last.out # <<>> =>
              /\ OnServer11
              /\ last.fault \in Unclassifiable \cup {"framing"}
              /\ \A t \in RepliedOnceMarks : Cardinality(Occ(last.out, t)) <= 1
              /\ ~last.wfailed =>
                    /\ \A t \in RepliedOnceMarks : Cardinality(Occ(last.out, t)) = 1
                    /\ StartsAt(last.out, 1, T_chunk_intro)
                    /\ EndsWith(last.out, MsgText.rpc_reply_close \o T_end_of_chunks)
        /\ last.fault \in {"transport", "state", "poll", "timeout"} => last.out = <<>>
        /\ last.type # NC_MSG_ERROR => last.out = <<>>

\* the stream ended in the middle of a chunk that a server of NETCONF 1.1 read
C37_Witness ==
    /\ last.op = "nc_read_msg"
    /\ OnServer11
    /\ last.pre.status = NC_STATUS_RUNNING
    /\ last.fault = "transport"
    /\ LastTaken = EOF
    /\ last.plan = <<>>
    /\ last.out = <<>>

\* one reply was written whole
C37_RepliedOnce ==
    /\ IsRead
    /\ OnServer11
    /\ last.fault = "root"
    /\ ~last.wfailed
    /\ Cardinality(Occ(last.out, MsgText.rpc_reply_open)) = 1

\* a read failed and left the session usable
C37_UsableAfterError ==
    /\ IsRead
    /\ OnServer11
    /\ last.fault = "transport"
    /\ StatusUsable(session.status)

(***************************************************************************)
(* C38: when nc_write_msg fails because of its arguments, a message of an  *)
(* unknown type or a reply of an unknown reply type, it returns -1, no     *)
(* byte reaches the transport, and status, term_reason and msgid are as    *)
(* they were.                                                              *)
(***************************************************************************)
UnknownType == last.msg.type \notin {NC_MSG_RPC, NC_MSG_REPLY, NC_MSG_NOTIF, NC_MSG_HELLO}

\* nc_write_msg was called on a usable session with arguments it cannot write
RefusedArguments ==
    /\ IsWrite
    /\ StatusUsable(last.pre.status)
    /\ UnknownType \/ UnknownReply(last.msg)

SessionAsBefore ==
    /\ session.status = last.pre.status
    /\ session.term_reason = last.pre.term_reason
    /\ session.msgid = last.pre.msgid

C38_RefusedWritesNothing ==
    RefusedArguments => last.ret = -1 /\ last.out = <<>> /\ SessionAsBefore

\* what holds: -1 and the counter in every case, and no byte and no change
\* of the session for the unknown message type
C38_RefusedUnknownType ==
    RefusedArguments =>
        /\ last.ret = -1
        /\ session.msgid = last.pre.msgid
        /\ UnknownType => last.out = <<>> /\ SessionAsBefore

\* the reply of an unknown type put the start of an rpc-reply and the end of
\* the message on a transport that took every byte
C38_UnknownReplyWitness ==
    /\ RefusedArguments
    /\ ~UnknownType
    /\ last.plan = <<>>
    /\ last.pre.ti_type = NC_TI_FD
    /\ last.pre.version = NC_VERSION_10
    /\ last.ret = -1
    /\ StartsAt(last.out, 1, MsgText.rpc_reply_open)
    /\ EndsWith(last.out, MsgText.quote_gt \o NC_VERSION_10_ENDTAG)
    /\ Occ(last.out, MsgText.rpc_reply_close) = {}

=============================================================================
